---- MODULE Spec2Model ----
(***************************************************************************)
(* Import/export engine of the business-card manager: CSV field encoding   *)
(* and tokenizing, logical line splitting, record decoding and encoding,   *)
(* format sniffing and deduplicating import (handleImportData).            *)
(*                                                                         *)
(* A JavaScript string is a sequence of one-character strings.  A          *)
(* JavaScript value is a tagged record: Str, Num, Null, Undefined, Arr (an *)
(* array of values) or KV (a {key, value} object).  An object with dynamic *)
(* properties is a sequence of [k, v] entries in insertion order.          *)
(***************************************************************************)
EXTENDS Integers, Sequences, FiniteSets, TLC

\* ------------------------------------------------------------ characters
DQ == "\""
COMMA == ","
NL == "\n"
CR == "\r"
SP == " "
TAB == "\t"
SEMI == ";"
COLON == ":"
DASH == "-"
\* U+FEFF, the byte-order mark (one character of the text)
BOM == "<U+FEFF>"

\* String.prototype.trim strips these (JavaScript WhiteSpace and LineTerminator)
WhiteSpace == {SP, TAB, NL, CR, BOM}

\* ------------------------------------------------------- string literals
S_id == <<"i", "d">>
S_companyName == <<"c", "o", "m", "p", "a", "n", "y", "N", "a", "m", "e">>
S_name == <<"n", "a", "m", "e">>
S_furigana == <<"f", "u", "r", "i", "g", "a", "n", "a">>
S_department == <<"d", "e", "p", "a", "r", "t", "m", "e", "n", "t">>
S_title == <<"t", "i", "t", "l", "e">>
S_zipCode == <<"z", "i", "p", "C", "o", "d", "e">>
S_address == <<"a", "d", "d", "r", "e", "s", "s">>
S_tel == <<"t", "e", "l">>
S_mobileTel == <<"m", "o", "b", "i", "l", "e", "T", "e", "l">>
S_fax == <<"f", "a", "x">>
S_email == <<"e", "m", "a", "i", "l">>
S_website == <<"w", "e", "b", "s", "i", "t", "e">>
S_sns == <<"s", "n", "s">>
S_otherTel == <<"o", "t", "h", "e", "r", "T", "e", "l">>
S_notes == <<"n", "o", "t", "e", "s">>
S_tags == <<"t", "a", "g", "s">>
S_classification == <<"c", "l", "a", "s", "s", "i", "f", "i", "c", "a", "t", "i", "o", "n">>
S_customFields == <<"c", "u", "s", "t", "o", "m", "F", "i", "e", "l", "d", "s">>
S_imageUrl == <<"i", "m", "a", "g", "e", "U", "r", "l">>
S_imageUrlBack == <<"i", "m", "a", "g", "e", "U", "r", "l", "B", "a", "c", "k">>
S_imageUrls == <<"i", "m", "a", "g", "e", "U", "r", "l", "s">>
S_fields == <<"f", "i", "e", "l", "d", "s">>
S_undefined == <<"u", "n", "d", "e", "f", "i", "n", "e", "d">>
S_null == <<"n", "u", "l", "l">>
S_cardMarker == <<"-", "-", "-", " ", "B", "u", "s", "i", "n", "e", "s", "s", " ", "C", "a", "r", "d", " ", "-", "-", "-">>
S_policyMarker == <<"-", "-", "-", " ", "A", "n", "a", "l", "y", "s", "i", "s", " ", "D", "a", "t", "a", ":">>
S_cardRule == <<"-", "-", "-", "-", "-", "-", "-", "-", "-", "-", "-", "-", "-", "-", "-", "-", "-", "-", "-", "-", "-">>
S_colonSpace == <<COLON, SP>>
S_commaSpace == <<COMMA, SP>>
S_csvExt == <<".", "c", "s", "v">>
S_txtExt == <<".", "t", "x", "t">>

\* ------------------------------------------------------- JavaScript values
Str(s) == [t |-> "str", s |-> s]
Num(n) == [t |-> "num", n |-> n]
Null == [t |-> "null"]
Undefined == [t |-> "undef"]
Arr(xs) == [t |-> "arr", xs |-> xs]
KV(k, v) == [t |-> "kv", key |-> k, value |-> v]

Digits == <<"0", "1", "2", "3", "4", "5", "6", "7", "8", "9">>

RECURSIVE NumStr(_)
NumStr(n) == IF n < 10 THEN <<Digits[n + 1]>>
             ELSE NumStr(n \div 10) \o <<Digits[(n % 10) + 1]>>

\* String(value), and a value inside a template literal `${value}`
String(v) ==
    CASE v.t = "str" -> v.s
      [] v.t = "num" -> NumStr(v.n)
      [] v.t = "null" -> S_null
      [] OTHER -> S_undefined

\* ------------------------------------------------------- string helpers
RECURSIVE Concat(_)
Concat(ss) == IF ss = <<>> THEN <<>> ELSE Head(ss) \o Concat(Tail(ss))

\* Array.prototype.join(sep) on an array of strings
RECURSIVE Join(_, _)
Join(ss, sep) ==
    IF ss = <<>> THEN <<>>
    ELSE IF Len(ss) = 1 THEN ss[1]
    ELSE ss[1] \o sep \o Join(Tail(ss), sep)

StartsAt(s, i, pat) ==
    /\ i + Len(pat) - 1 <= Len(s)
    /\ SubSeq(s, i, i + Len(pat) - 1) = pat

\* String.prototype.includes
Includes(s, pat) == \E i \in 1..(Len(s) + 1) : StartsAt(s, i, pat)

\* String.prototype.endsWith
EndsWith(s, pat) == Len(s) >= Len(pat) /\ StartsAt(s, Len(s) - Len(pat) + 1, pat)

\* String.prototype.indexOf (1-based; 0 when absent)
IndexOf(s, pat) ==
    LET hits == {i \in 1..(Len(s) + 1) : StartsAt(s, i, pat)} IN
    IF hits = {} THEN 0 ELSE CHOOSE i \in hits : \A j \in hits : i <= j

\* String.prototype.split(sep) for a non-empty separator
RECURSIVE Split(_, _)
Split(s, sep) ==
    LET i == IndexOf(s, sep) IN
    IF i = 0 THEN <<s>>
    ELSE <<SubSeq(s, 1, i - 1)>> \o Split(SubSeq(s, i + Len(sep), Len(s)), sep)

\* String.prototype.trimStart and trimEnd
RECURSIVE TrimStart(_)
TrimStart(s) ==
    IF s # <<>> /\ Head(s) \in WhiteSpace THEN TrimStart(Tail(s)) ELSE s

RECURSIVE TrimEnd(_)
TrimEnd(s) ==
    IF s # <<>> /\ s[Len(s)] \in WhiteSpace
    THEN TrimEnd(SubSeq(s, 1, Len(s) - 1)) ELSE s

\* String.prototype.trim
Trim(s) == TrimEnd(TrimStart(s))

\* String.prototype.replace(/"/g, '""')
RECURSIVE DoubleQuotes(_)
DoubleQuotes(s) ==
    IF s = <<>> THEN <<>>
    ELSE (IF Head(s) = DQ THEN <<DQ, DQ>> ELSE <<Head(s)>>) \o DoubleQuotes(Tail(s))

\* String.prototype.replace(/""/g, '"')
RECURSIVE UndoubleQuotes(_)
UndoubleQuotes(s) ==
    IF s = <<>> THEN <<>>
    ELSE IF Len(s) >= 2 /\ s[1] = DQ /\ s[2] = DQ
         THEN <<DQ>> \o UndoubleQuotes(SubSeq(s, 3, Len(s)))
         ELSE <<Head(s)>> \o UndoubleQuotes(Tail(s))

\* ------------------------------------------------------- CSV helper functions
NeedsQuoting(stringValue) ==
    \E i \in 1..Len(stringValue) : stringValue[i] \in {DQ, COMMA, NL}

formatCsvField_NoDoubling(field) ==
    IF field.t \in {"null", "undef"} THEN <<>>
    ELSE LET stringValue == String(field) IN
         IF NeedsQuoting(stringValue) THEN <<DQ>> \o stringValue \o <<DQ>>
         ELSE stringValue

formatCsvField(field) ==
    IF field.t \in {"null", "undef"} THEN <<>>
    ELSE LET stringValue == DoubleQuotes(String(field)) IN
         IF NeedsQuoting(stringValue) THEN <<DQ>> \o stringValue \o <<DQ>>
         ELSE stringValue

\* s matches [^"]*(?:""[^"]*)* : every double quote of s starts a pair ""
RECURSIVE IsQuotedBody(_)
IsQuotedBody(s) ==
    IF s = <<>> THEN TRUE
    ELSE IF Head(s) # DQ THEN IsQuotedBody(Tail(s))
    ELSE Len(s) >= 2 /\ s[2] = DQ /\ IsQuotedBody(SubSeq(s, 3, Len(s)))

\* The closing quotes q of a match of "([^"]*(?:""[^"]*)*)"(?:,|$) that starts at
\* p.  There is at most one: a longer body would hold the quote at q unpaired.
ClosingQuotes(line, p) ==
    IF p > Len(line) \/ line[p] # DQ THEN {}
    ELSE {q \in (p + 1)..Len(line) :
            /\ line[q] = DQ
            /\ q = Len(line) \/ line[q + 1] = COMMA
            /\ IsQuotedBody(SubSeq(line, p + 1, q - 1))}

\* One regex.exec at lastIndex p: the field pushed, the index after match[0],
\* and whether match[0] ends with a comma.
ExecField(line, p) ==
    LET qs == ClosingQuotes(line, p) IN
    IF qs # {}
    THEN LET q == CHOOSE c \in qs : \A d \in qs : c >= d IN
         [field |-> UndoubleQuotes(SubSeq(line, p + 1, q - 1)),
          next |-> IF q = Len(line) THEN q + 1 ELSE q + 2,
          comma |-> q < Len(line)]
    ELSE LET cs == {c \in p..Len(line) : line[c] = COMMA}
             r == IF cs = {} THEN Len(line) + 1
                  ELSE CHOOSE c \in cs : \A d \in cs : c <= d
         IN [field |-> SubSeq(line, p, r - 1),
             next |-> r + 1,
             comma |-> r <= Len(line)]

RECURSIVE ParseFrom(_, _)
ParseFrom(line, p) ==
    LET m == ExecField(line, p) IN
    IF m.comma THEN <<m.field>> \o ParseFrom(line, m.next) ELSE <<m.field>>

parseCsvLine(line) == ParseFrom(line, 1)

\* ------------------------------------------------------- dynamic objects
\* An object is a sequence of entries [k |-> property name, v |-> value].
Has(o, k) == \E i \in 1..Len(o) : o[i].k = k

\* obj[k]: undefined when the property is absent
Get(o, k) ==
    IF Has(o, k) THEN o[CHOOSE i \in 1..Len(o) : o[i].k = k].v ELSE Undefined

\* obj[k] = v: an existing property keeps its place
Put(o, k, v) ==
    IF Has(o, k)
    THEN [i \in 1..Len(o) |-> IF o[i].k = k THEN [k |-> k, v |-> v] ELSE o[i]]
    ELSE Append(o, [k |-> k, v |-> v])

Keys(o) == {o[i].k : i \in 1..Len(o)}

\* { ...a, ...b }
RECURSIVE Spread(_, _)
Spread(a, b) ==
    IF b = <<>> THEN a ELSE Spread(Put(a, b[1].k, b[1].v), Tail(b))

\* JavaScript truthiness of the values the engine tests
Truthy(v) ==
    CASE v.t = "str" -> v.s # <<>>
      [] v.t = "num" -> v.n # 0
      [] v.t \in {"null", "undef"} -> FALSE
      [] OTHER -> TRUE

\* ------------------------------------------------------- logical line splitter
EvenQuotesAfter(text, i) ==
    Cardinality({j \in (i + 1)..Len(text) : text[j] = DQ}) % 2 = 0

\* The separators of text.split(/\r?\n(?=(?:[^"]*"[^"]*")*[^"]*$)/): a newline
\* separates when the text after it holds an even number of double quotes
LineBreaks(text) ==
    {i \in 1..Len(text) : text[i] = NL /\ EvenQuotesAfter(text, i)}

\* \r? : the separator takes the carriage return before its newline
BreakStart(text, i) == IF i > 1 /\ text[i - 1] = CR THEN i - 1 ELSE i

RECURSIVE CutLines(_, _, _)
CutLines(text, start, breaks) ==
    IF breaks = {} THEN <<SubSeq(text, start, Len(text))>>
    ELSE LET i == CHOOSE b \in breaks : \A c \in breaks : b <= c IN
         <<SubSeq(text, start, BreakStart(text, i) - 1)>>
         \o CutLines(text, i + 1, breaks \ {i})

SplitLogicalLines_Naive(text) == Split(text, <<NL>>)

SplitLogicalLines(text) == CutLines(text, 1, LineBreaks(text))

\* ------------------------------------------------------- record decoder
ListKeys == {S_website, S_sns, S_tags}

\* cf => { key, value } on the first colon
DecodeCustomField(cf) ==
    LET separatorIndex == IndexOf(cf, <<COLON>>) IN
    IF separatorIndex = 0 THEN KV(cf, <<>>)
    ELSE KV(SubSeq(cf, 1, separatorIndex - 1),
            SubSeq(cf, separatorIndex + 1, Len(cf)))

StrList(ss) == Arr([i \in 1..Len(ss) |-> Str(ss[i])])

DecodeCardValue(key, value) ==
    IF key \in ListKeys
    THEN (IF value # <<>> THEN StrList(Split(value, <<SEMI>>)) ELSE Arr(<<>>))
    ELSE IF key = S_customFields
    THEN (IF value # <<>>
          THEN LET cfs == Split(value, <<SEMI>>) IN
               Arr([i \in 1..Len(cfs) |-> DecodeCustomField(cfs[i])])
          ELSE Arr(<<>>))
    ELSE Str(value)

\* header.forEach((key, index) => ...) from column index on
RECURSIVE DecodeCardColumns(_, _, _, _)
DecodeCardColumns(header, values, index, card) ==
    IF index > Len(header) THEN card
    ELSE IF index > Len(values)
         THEN DecodeCardColumns(header, values, index + 1, card)
         ELSE DecodeCardColumns(header, values, index + 1,
                 Put(card, header[index],
                     DecodeCardValue(header[index], values[index])))

TrimAll(cells) == [i \in 1..Len(cells) |-> Trim(cells[i])]

\* lines.map(line => ...).filter(card => card !== null)
RECURSIVE DecodeCardRows(_, _)
DecodeCardRows(header, lines) ==
    IF lines = <<>> THEN <<>>
    ELSE IF Trim(Head(lines)) = <<>> THEN DecodeCardRows(header, Tail(lines))
    ELSE <<DecodeCardColumns(header, parseCsvLine(Head(lines)), 1, <<>>)>>
         \o DecodeCardRows(header, Tail(lines))

parseCardCsv(csv) ==
    LET lines == SplitLogicalLines(Trim(csv))
        headerLine == Head(lines)
    IN IF headerLine = <<>> THEN <<>>
       ELSE DecodeCardRows(TrimAll(parseCsvLine(headerLine)), Tail(lines))

\* policyData[key] = values[index] for the columns the row has
RECURSIVE DecodePolicyColumns(_, _, _, _)
DecodePolicyColumns(header, values, index, policyData) ==
    IF index > Len(header) \/ index > Len(values) THEN policyData
    ELSE DecodePolicyColumns(header, values, index + 1,
            Put(policyData, header[index], Str(values[index])))

PolicyField(id, key, value) == [t |-> "field", id |-> id, key |-> key, value |-> value]

\* f => { id, key, value } on the first colon; id is Date.now() + Math.random() + i
DecodePolicyField(f, id) ==
    LET separatorIndex == IndexOf(f, <<COLON>>) IN
    IF separatorIndex = 0 THEN PolicyField(id, f, <<>>)
    ELSE PolicyField(id, SubSeq(f, 1, separatorIndex - 1),
                     SubSeq(f, separatorIndex + 1, Len(f)))

DecodePolicyRow(header, line, fresh) ==
    LET policyData == DecodePolicyColumns(header, parseCsvLine(line), 1, <<>>)
        title == Get(policyData, S_title)
        imageUrls == Get(policyData, S_imageUrls)
        fields == Get(policyData, S_fields)
        fs == Split(String(fields), <<SEMI>>)
    IN <<[k |-> S_title, v |-> IF Truthy(title) THEN title ELSE Str(<<>>)],
         [k |-> S_imageUrls,
          v |-> IF Truthy(imageUrls)
                THEN StrList(Split(String(imageUrls), <<SEMI>>)) ELSE Arr(<<>>)],
         [k |-> S_fields,
          v |-> IF Truthy(fields)
                THEN Arr([i \in 1..Len(fs) |-> DecodePolicyField(fs[i], fresh + i - 1)])
                ELSE Arr(<<>>)]>>

RECURSIVE DecodePolicyRows(_, _, _)
DecodePolicyRows(header, lines, fresh) ==
    IF lines = <<>> THEN <<>>
    ELSE IF Trim(Head(lines)) = <<>> THEN DecodePolicyRows(header, Tail(lines), fresh)
    ELSE LET policy == DecodePolicyRow(header, Head(lines), fresh) IN
         <<policy>> \o DecodePolicyRows(header, Tail(lines),
                                         fresh + Len(Get(policy, S_fields).xs))

parsePolicyCsv(csv, fresh) ==
    LET lines == SplitLogicalLines(Trim(csv))
        headerLine == Head(lines)
    IN IF headerLine = <<>> THEN <<>>
       ELSE DecodePolicyRows(TrimAll(parseCsvLine(headerLine)), Tail(lines), fresh)

\* the keys the switch of parseCardTxt assigns
TxtCardKeys == {S_companyName, S_name, S_furigana, S_department, S_title}

\* lines.forEach(line => { const [key, ...valueParts] = line.split(': '); ... })
RECURSIVE DecodeCardTxtLines(_, _)
DecodeCardTxtLines(lines, card) ==
    IF lines = <<>> THEN card
    ELSE LET parts == Split(Head(lines), S_colonSpace)
             key == Head(parts)
             value == Join(Tail(parts), S_colonSpace)
         IN DecodeCardTxtLines(Tail(lines),
               IF key \in TxtCardKeys THEN Put(card, key, Str(value)) ELSE card)

\* array.filter(Boolean) on strings
NonEmpty(ss) == SelectSeq(ss, LAMBDA s : s # <<>>)

parseCardTxt(txt) ==
    LET entries == NonEmpty(Split(Trim(txt), S_cardMarker)) IN
    [i \in 1..Len(entries) |->
        DecodeCardTxtLines(Split(Trim(entries[i]), <<NL>>), <<>>)]

\* String.prototype.replace(pattern, '') with a string pattern: the first occurrence
RemoveFirst(s, pat) ==
    LET i == IndexOf(s, pat) IN
    IF i = 0 THEN s ELSE SubSeq(s, 1, i - 1) \o SubSeq(s, i + Len(pat), Len(s))

RECURSIVE DecodePolicyTxtLines(_, _)
DecodePolicyTxtLines(lines, fresh) ==
    IF lines = <<>> THEN <<>>
    ELSE LET parts == Split(Head(lines), S_colonSpace)
             key == Head(parts)
         IN IF key # <<>> /\ Len(parts) > 1
            THEN <<PolicyField(fresh, Trim(key), Trim(Join(Tail(parts), S_colonSpace)))>>
                 \o DecodePolicyTxtLines(Tail(lines), fresh + 1)
            ELSE DecodePolicyTxtLines(Tail(lines), fresh)

RECURSIVE DecodePolicyTxtEntries(_, _)
DecodePolicyTxtEntries(entries, fresh) ==
    IF entries = <<>> THEN <<>>
    ELSE LET lines == Split(Trim(Head(entries)), <<NL>>)
             title == Trim(RemoveFirst(Head(lines), <<DASH, DASH, DASH>>))
             fields == DecodePolicyTxtLines(Tail(lines), fresh)
         IN <<(<<[k |-> S_title, v |-> Str(title)],
                 [k |-> S_imageUrls, v |-> Arr(<<>>)],
                 [k |-> S_fields, v |-> Arr(fields)]>>)>>
            \o DecodePolicyTxtEntries(Tail(entries), fresh + Len(fields))

parsePolicyTxt(txt, fresh) ==
    DecodePolicyTxtEntries(NonEmpty(Split(Trim(txt), S_policyMarker)), fresh)

\* ------------------------------------------------------- record encoder
\* the CSV column order of CardListScreen.handleExport
ExportHeader ==
    <<S_id, S_companyName, S_name, S_furigana, S_department, S_title, S_zipCode,
      S_address, S_tel, S_mobileTel, S_fax, S_email, S_website, S_sns, S_otherTel,
      S_notes, S_tags, S_classification, S_customFields>>

\* `${f.key}:${f.value}`
KeyColonValue(f) == f.key \o <<COLON>> \o f.value

\* value.map(f => `${f.key}:${f.value}`).join(';')
JoinCustomFields(value) ==
    Join([i \in 1..Len(value.xs) |-> KeyColonValue(value.xs[i])], <<SEMI>>)

\* value.join(sep) on an array of strings
JoinValues(value, sep) ==
    Join([i \in 1..Len(value.xs) |-> String(value.xs[i])], sep)

CsvCell(card, key) ==
    LET value == Get(card, key) IN
    IF key = S_customFields /\ value.t = "arr"
    THEN formatCsvField(Str(JoinCustomFields(value)))
    ELSE IF value.t = "arr" THEN formatCsvField(Str(JoinValues(value, <<SEMI>>)))
    ELSE formatCsvField(value)

CsvRow(card) ==
    Join([i \in 1..Len(ExportHeader) |-> CsvCell(card, ExportHeader[i])], <<COMMA>>)

CardCsvContent(cardsToExport) ==
    Join(<<Join(ExportHeader, <<COMMA>>)>>
         \o [i \in 1..Len(cardsToExport) |-> CsvRow(cardsToExport[i])], <<NL>>)

\* one Object.entries(card) entry as a TXT line, <<>> for an entry that is left out
TxtLine(key, value) ==
    IF value.t \in {"null", "undef"} \/ value = Str(<<>>) THEN <<>>
    ELSE IF value.t = "arr"
    THEN (IF value.xs = <<>> THEN <<>>
          ELSE IF key = S_customFields
          THEN S_customFields \o S_colonSpace \o JoinCustomFields(value)
          ELSE key \o S_colonSpace \o JoinValues(value, S_commaSpace))
    ELSE key \o S_colonSpace \o String(value)

CardTxtEntry(card) ==
    S_cardMarker \o <<NL>>
    \o Join(NonEmpty([i \in 1..Len(card) |-> TxtLine(card[i].k, card[i].v)]), <<NL>>)
    \o <<NL>> \o S_cardRule \o <<NL>>

CardTxtContent(cardsToExport) ==
    Join([i \in 1..Len(cardsToExport) |-> CardTxtEntry(cardsToExport[i])], <<NL>>)

\* new Blob(['\\uFEFF' + content]): the text of the downloaded file
handleExport(cardsToExport, format) ==
    <<BOM>> \o (IF format = "csv" THEN CardCsvContent(cardsToExport)
                ELSE CardTxtContent(cardsToExport))

\* reader.readAsText(file): the UTF-8 decode drops a leading byte-order mark
readAsText(text) ==
    IF text # <<>> /\ Head(text) = BOM THEN Tail(text) ELSE text

\* ------------------------------------------------------- format sniffing
\* content.trim().split('\n')[0], tokenized, each cell trimmed
SniffHeader(content) ==
    TrimAll(parseCsvLine(Head(Split(Trim(content), <<NL>>))))

InHeader(header, key) == \E i \in 1..Len(header) : header[i] = key

\* The branch of reader.onload that handles the file: the decoder it runs or the
\* error it throws.
Classify_PolicyFirst(name, content) ==
    IF content = <<>> THEN "EmptyInput"
    ELSE IF EndsWith(name, S_csvExt)
    THEN LET header == SniffHeader(content) IN
         IF InHeader(header, S_title) /\ InHeader(header, S_fields)
         THEN "PolicyCsv"
         ELSE IF InHeader(header, S_companyName) /\ InHeader(header, S_name)
         THEN "CardCsv"
         ELSE "UnrecognizedCsv"
    ELSE IF EndsWith(name, S_txtExt)
    THEN IF Includes(content, S_policyMarker) THEN "PolicyTxt"
         ELSE IF Includes(content, S_cardMarker) THEN "CardTxt"
         ELSE "UnrecognizedTxt"
    ELSE "UnsupportedFormat"

Classify(name, content) ==
    IF content = <<>> THEN "EmptyInput"
    ELSE IF EndsWith(name, S_csvExt)
    THEN LET header == SniffHeader(content) IN
         IF InHeader(header, S_companyName) /\ InHeader(header, S_name)
         THEN "CardCsv"
         ELSE IF InHeader(header, S_title) /\ InHeader(header, S_fields)
         THEN "PolicyCsv"
         ELSE "UnrecognizedCsv"
    ELSE IF EndsWith(name, S_txtExt)
    THEN IF Includes(content, S_cardMarker) THEN "CardTxt"
         ELSE IF Includes(content, S_policyMarker) THEN "PolicyTxt"
         ELSE "UnrecognizedTxt"
    ELSE "UnsupportedFormat"

ImportErrors == {"EmptyInput", "UnrecognizedCsv", "UnrecognizedTxt", "UnsupportedFormat"}

\* ------------------------------------------------------- deduplication
\* `${c.companyName}-${c.name}`
CardKey(c) == String(Get(c, S_companyName)) \o <<DASH>> \o String(Get(c, S_name))

PolicyKey(p) == String(Get(p, S_title))

CardKeys(cs) == {CardKey(cs[i]) : i \in 1..Len(cs)}

PolicyKeys(ps) == {PolicyKey(ps[i]) : i \in 1..Len(ps)}

FilterNewCards_NoDedup(newCards, existing) == newCards

FilterNewCards_ByNameOnly(newCards, existing) ==
    SelectSeq(newCards,
              LAMBDA nc : \A i \in 1..Len(existing) :
                             Get(existing[i], S_name) # Get(nc, S_name))

\* newCards.filter(nc => !existingCards.has(`${nc.companyName}-${nc.name}`))
FilterNewCards(newCards, existing) ==
    SelectSeq(newCards, LAMBDA nc : CardKey(nc) \notin CardKeys(existing))

\* newPolicies.filter(np => !existingPolicies.has(np.title))
FilterNewPolicies(newPolicies, existing) ==
    SelectSeq(newPolicies, LAMBDA np : PolicyKey(np) \notin PolicyKeys(existing))

\* { ...data, id, imageUrl: null, imageUrlBack: null }
MakeCard(data, id) ==
    Spread(data, <<[k |-> S_id, v |-> id],
                   [k |-> S_imageUrl, v |-> Null],
                   [k |-> S_imageUrlBack, v |-> Null]>>)

\* .map(nc => ({ ...nc, id: Date.now() + Math.random(), imageUrl: null,
\* imageUrlBack: null })): the ids are fresh, fresh + 1, ...
StampCards(newCards, fresh) ==
    [i \in 1..Len(newCards) |-> MakeCard(newCards[i], Num(fresh + i - 1))]

\* .map(np => ({ ...np, id: Date.now() + Math.random() }))
StampPolicies(newPolicies, fresh) ==
    [i \in 1..Len(newPolicies) |->
        Put(newPolicies[i], S_id, Num(fresh + i - 1))]

\* the field ids a decoded policy batch has used
FieldCount(newPolicies) ==
    Len(Concat([i \in 1..Len(newPolicies) |-> Get(newPolicies[i], S_fields).xs]))

\* [...cards, ...uniqueNewCards]
AppendNew_Replacing(existing, uniqueNew) == uniqueNew \o existing

AppendNew(existing, uniqueNew) == existing \o uniqueNew

\* ------------------------------------------------------- reader.onload
\* What one run of reader.onload does: the calls of updateCards, updatePolicies
\* and navigateTo it makes (none or one of each), the ids it draws, the alert it
\* shows; branch and decoded name the branch it took and the batch it decoded.
NoEffect ==
    [updateCards |-> <<>>, updatePolicies |-> <<>>, navigateTo |-> <<>>, ids |-> 0,
     alert |-> [kind |-> "none"], branch |-> "none", decoded |-> <<>>]

\* throw new Error(...), caught at the end of the handler: console.error and alert
Thrown(branch) ==
    [NoEffect EXCEPT !.alert = [kind |-> "error", message |-> branch],
                     !.branch = branch]

\* the card branches: dedup against the cards the handler was created with
ImportCards(branch, newCards, existingCards, fresh) ==
    LET uniqueNewCards == StampCards(FilterNewCards(newCards, existingCards), fresh) IN
    IF Len(uniqueNewCards) > 0
    THEN [updateCards |-> <<AppendNew(existingCards, uniqueNewCards)>>,
          updatePolicies |-> <<>>,
          navigateTo |-> <<"list">>,
          ids |-> Len(uniqueNewCards),
          alert |-> [kind |-> "imported", what |-> "cards",
                     n |-> Len(uniqueNewCards)],
          branch |-> branch, decoded |-> newCards]
    ELSE [NoEffect EXCEPT !.alert = [kind |-> "nothingNew", what |-> "cards"],
                          !.branch = branch, !.decoded = newCards]

\* the policy branches; the decoder has drawn `used` ids for the fields
ImportPolicies(branch, newPolicies, existingPolicies, fresh) ==
    LET used == FieldCount(newPolicies)
        uniqueNewPolicies ==
            StampPolicies(FilterNewPolicies(newPolicies, existingPolicies),
                          fresh + used)
    IN IF Len(uniqueNewPolicies) > 0
       THEN [updateCards |-> <<>>,
             updatePolicies |-> <<AppendNew(existingPolicies, uniqueNewPolicies)>>,
             navigateTo |-> <<"analysisList">>,
             ids |-> used + Len(uniqueNewPolicies),
             alert |-> [kind |-> "imported", what |-> "policies",
                        n |-> Len(uniqueNewPolicies)],
             branch |-> branch, decoded |-> newPolicies]
       ELSE [NoEffect EXCEPT !.ids = used,
                             !.alert = [kind |-> "nothingNew", what |-> "policies"],
                             !.branch = branch, !.decoded = newPolicies]

onload_NavigateOnError(file, existingCards, existingPolicies, fresh) ==
    LET content == readAsText(file.content)
        branch == Classify(file.name, content)
    IN CASE branch = "CardCsv" ->
              ImportCards(branch, parseCardCsv(content), existingCards, fresh)
         [] branch = "PolicyCsv" ->
              ImportPolicies(branch, parsePolicyCsv(content, fresh),
                             existingPolicies, fresh)
         [] branch = "CardTxt" ->
              ImportCards(branch, parseCardTxt(content), existingCards, fresh)
         [] branch = "PolicyTxt" ->
              ImportPolicies(branch, parsePolicyTxt(content, fresh),
                             existingPolicies, fresh)
         [] OTHER -> [Thrown(branch) EXCEPT !.navigateTo = <<"list">>]

\* reader.onload for a file, in a handler created when the cards and policies
\* were existingCards and existingPolicies
onload(file, existingCards, existingPolicies, fresh) ==
    LET content == readAsText(file.content)
        branch == Classify(file.name, content)
    IN CASE branch = "CardCsv" ->
              ImportCards(branch, parseCardCsv(content), existingCards, fresh)
         [] branch = "PolicyCsv" ->
              ImportPolicies(branch, parsePolicyCsv(content, fresh),
                             existingPolicies, fresh)
         [] branch = "CardTxt" ->
              ImportCards(branch, parseCardTxt(content), existingCards, fresh)
         [] branch = "PolicyTxt" ->
              ImportPolicies(branch, parsePolicyTxt(content, fresh),
                             existingPolicies, fresh)
         [] OTHER -> Thrown(branch)
\* ------------------------------------------------------- the files the user can pick
File_cardsCsv ==
    [name |-> <<"c", "a", "r", "d", "s", ".", "c", "s", "v">>,
     content |->
      <<"c", "o", "m", "p", "a", "n", "y", "N", "a", "m", "e", COMMA, "n", "a",
      "m", "e", NL, "A", "c", "m", "e", SP, "I", "n", "c", COMMA, "J", "a",
      "n", "e", SP, "D", "o", "e">>]

File_mixedCsv ==
    [name |-> <<"m", "i", "x", "e", "d", ".", "c", "s", "v">>,
     content |->
      <<"c", "o", "m", "p", "a", "n", "y", "N", "a", "m", "e", COMMA, "n", "a",
      "m", "e", NL, "A", "c", "m", "e", SP, "I", "n", "c", COMMA, "J", "a",
      "n", "e", SP, "D", "o", "e", NL, "A", "c", "m", "e", SP, "I", "n", "c",
      COMMA, "J", "o", "h", "n", SP, "S", "m", "i", "t", "h">>]

File_bothCsv ==
    [name |-> <<"b", "o", "t", "h", ".", "c", "s", "v">>,
     content |->
      <<"t", "i", "t", "l", "e", COMMA, "f", "i", "e", "l", "d", "s", COMMA,
      "n", "a", "m", "e", COMMA, "c", "o", "m", "p", "a", "n", "y", "N", "a",
      "m", "e", NL, "C", "E", "O", COMMA, "k", COLON, "v", COMMA, "J", "a",
      "n", "e", SP, "D", "o", "e", COMMA, "B", "e", "t", "a">>]

File_extraCsv ==
    [name |-> <<"e", "x", "t", "r", "a", ".", "c", "s", "v">>,
     content |->
      <<"n", "a", "m", "e", COMMA, "r", "a", "n", "k", COMMA, "c", "o", "m",
      "p", "a", "n", "y", "N", "a", "m", "e", NL, "J", "o", "h", "n", SP, "S",
      "m", "i", "t", "h", COMMA, "9", COMMA, "A", "c", "m", "e", SP, "I", "n",
      "c">>]

File_policyCsv ==
    [name |-> <<"p", "o", "l", "i", "c", "y", ".", "c", "s", "v">>,
     content |->
      <<"t", "i", "t", "l", "e", COMMA, "f", "i", "e", "l", "d", "s", NL, "P",
      "l", "a", "n", SP, "A", COMMA, "k", COLON, "v">>]

File_otherCsv ==
    [name |-> <<"o", "t", "h", "e", "r", ".", "c", "s", "v">>,
     content |->
      <<"f", "o", "o", COMMA, "b", "a", "r", NL, "1", COMMA, "2">>]

File_bothTxt ==
    [name |-> <<"b", "o", "t", "h", ".", "t", "x", "t">>,
     content |->
      <<DASH, DASH, DASH, SP, "A", "n", "a", "l", "y", "s", "i", "s", SP, "D",
      "a", "t", "a", COLON, SP, "P", "l", "a", "n", SP, "B", SP, DASH, DASH,
      DASH, NL, DASH, DASH, DASH, SP, "B", "u", "s", "i", "n", "e", "s", "s",
      SP, "C", "a", "r", "d", SP, DASH, DASH, DASH, NL, "n", "a", "m", "e",
      COLON, SP, "B", "o", "b", NL>>]

File_policyTxt ==
    [name |-> <<"p", "o", "l", "i", "c", "y", ".", "t", "x", "t">>,
     content |->
      <<DASH, DASH, DASH, SP, "A", "n", "a", "l", "y", "s", "i", "s", SP, "D",
      "a", "t", "a", COLON, SP, "P", "l", "a", "n", SP, "A", SP, DASH, DASH,
      DASH, NL, "k", COLON, SP, "v", NL>>]

File_otherTxt ==
    [name |-> <<"o", "t", "h", "e", "r", ".", "t", "x", "t">>,
     content |->
      <<"h", "e", "l", "l", "o">>]

File_cardsJson ==
    [name |-> <<"c", "a", "r", "d", "s", ".", "j", "s", "o", "n">>,
     content |->
      <<"c", "o", "m", "p", "a", "n", "y", "N", "a", "m", "e", COMMA, "n", "a",
      "m", "e", NL, "A", "c", "m", "e", SP, "I", "n", "c", COMMA, "J", "a",
      "n", "e", SP, "D", "o", "e">>]

File_emptyCsv ==
    [name |-> <<"e", "m", "p", "t", "y", ".", "c", "s", "v">>,
     content |->
      <<>>]

File_blankCsv ==
    [name |-> <<"b", "l", "a", "n", "k", ".", "c", "s", "v">>,
     content |->
      <<SP, NL>>]

File_blankTxt ==
    [name |-> <<"b", "l", "a", "n", "k", ".", "t", "x", "t">>,
     content |->
      <<NL, SP>>]

File_imagesCsv ==
    [name |-> <<"i", "m", "a", "g", "e", "s", ".", "c", "s", "v">>,
     content |->
      <<"t", "i", "t", "l", "e", COMMA, "f", "i", "e", "l", "d", "s", COMMA,
      "i", "m", "a", "g", "e", "U", "r", "l", "s", NL, "P", "l", "a", "n", SP,
      "C", COMMA, "k", COLON, "v", COMMA, "a", ".", "p", "n", "g">>]

File_twiceCsv ==
    [name |-> <<"t", "w", "i", "c", "e", ".", "c", "s", "v">>,
     content |->
      <<"c", "o", "m", "p", "a", "n", "y", "N", "a", "m", "e", COMMA, "n", "a",
      "m", "e", NL, "A", "c", "m", "e", SP, "I", "n", "c", COMMA, "J", "a",
      "n", "e", SP, "D", "o", "e", NL, "A", "c", "m", "e", SP, "I", "n", "c",
      COMMA, "J", "a", "n", "e", SP, "D", "o", "e">>]

File_dashCsv ==
    [name |-> <<"d", "a", "s", "h", ".", "c", "s", "v">>,
     content |->
      <<"c", "o", "m", "p", "a", "n", "y", "N", "a", "m", "e", COMMA, "n", "a",
      "m", "e", NL, "A", DASH, "B", COMMA, "C">>]

File_dash2Csv ==
    [name |-> <<"d", "a", "s", "h", "2", ".", "c", "s", "v">>,
     content |->
      <<"c", "o", "m", "p", "a", "n", "y", "N", "a", "m", "e", COMMA, "n", "a",
      "m", "e", NL, "A", COMMA, "B", DASH, "C">>]

\* the picker: a file is chosen by the label it has here
Corpus ==
    [cardsCsv |-> File_cardsCsv,
     mixedCsv |-> File_mixedCsv,
     bothCsv |-> File_bothCsv,
     extraCsv |-> File_extraCsv,
     policyCsv |-> File_policyCsv,
     otherCsv |-> File_otherCsv,
     bothTxt |-> File_bothTxt,
     policyTxt |-> File_policyTxt,
     otherTxt |-> File_otherTxt,
     cardsJson |-> File_cardsJson,
     emptyCsv |-> File_emptyCsv,
     blankCsv |-> File_blankCsv,
     blankTxt |-> File_blankTxt,
     imagesCsv |-> File_imagesCsv,
     twiceCsv |-> File_twiceCsv,
     dashCsv |-> File_dashCsv,
     dash2Csv |-> File_dash2Csv]

\* ------------------------------------------------------- bounds
\* longest field string drawn for the tokenizer round trip
MaxFieldLen == 4
\* longest notes string drawn for the record round trip
MaxNoteLen == 3
\* imports that may be waiting for their file to be read
MaxPending == 1
\* ids handed out in one run
MaxId == 3
\* pages of one policy analysis
MaxImages == 2
\* calls of the extraction service that may be outstanding
MaxCalls == 2
\* screens on the history stack during a policy analysis
MaxHistory == 5
\* columns of the sheet the column mapper fills
MaxHeaders == 3
\* longest text drawn for the logical line splitter
MaxSplitLen == 5


\* ------------------------------------------------------- state
VARIABLES
    cards,          \* useState<CardData[]>
    policies,       \* useState<PolicyData[]>
    memos,          \* useState<Record<number, Memo[]>>
    history,        \* useState<View[]>
    localStorage,   \* the items the app writes
    storageFull,    \* localStorage.setItem throws (quota exceeded)
    pending,        \* imports whose FileReader has not fired onload yet, each
                    \* with the cards and policies its handler closed over
    nextId,         \* stands for Date.now() + Math.random(): never repeats
    last,           \* what the last step did and the state it started from
    job,            \* one run of the encoder and decoder on a drawn input
    currentPolicyAnalysis,  \* useState<CurrentPolicyAnalysis | null>
    calls,          \* calls of callApiProxy('analyzePolicy') not yet settled,
                    \* each with the newImages its handler holds
    recentCardIds,      \* useState<number[]>
    recentPolicyIds,    \* useState<number[]>
    \* the household account book (src/index.tsx)
    driveFileId,    \* useState(null): the id of the Drive file, "null" for none
    isLoading,      \* useState(true), false once the user is logged in
    currentScreen,  \* useState('home')
    allData,        \* useState({ receipts, fixedCosts, oshi, shoppingList })
    stagedReceipt,  \* useState(null)
    isProcessing,   \* useState<string | false>(false)
    houseError,     \* error, useState('')
    fileLoadError,  \* useState(null)
    drive,          \* the content of each Drive file
    saves,          \* calls of driveApi.saveFile not yet settled
    loads,          \* runs of loadDataWithRetries not yet ended
    scans,          \* calls of callApi('receipt_confirm') not yet settled
    clock,          \* Date.now(), in steps of one
    seen            \* what the last step of the account book did

recentVars == <<recentCardIds, recentPolicyIds>>
houseVars == <<driveFileId, isLoading, currentScreen, allData, stagedReceipt, isProcessing,
              houseError, fileLoadError, drive, saves, loads, scans, clock, seen>>
bookVars == <<cards, policies, memos, history, localStorage, storageFull, pending, nextId, last,
             currentPolicyAnalysis, calls, recentVars>>
appVars == <<bookVars, houseVars>>
vars == <<bookVars, job, houseVars>>

\* ------------------------------------------------------- codec inputs
RECURSIVE StringsUpTo(_, _)
StringsUpTo(alphabet, n) ==
    IF n = 0 THEN {<<>>}
    ELSE LET shorter == StringsUpTo(alphabet, n - 1) IN
         shorter \cup {Append(s, c) : s \in {t \in shorter : Len(t) = n - 1},
                                      c \in alphabet}

S_heSaidHi == <<"H", "e", " ", "s", "a", "i", "d", " ", "\"", "h", "i", "\"">>
S_heSaidHiEncoded == <<"\"", "H", "e", " ", "s", "a", "i", "d", " ", "\"", "\"", "h", "i", "\"", "\"", "\"">>

FieldAlphabet == {"a", DQ, COMMA, NL, CR}
FieldInputs == StringsUpTo(FieldAlphabet, MaxFieldLen) \cup {S_heSaidHi}

NoteAlphabet == {"a", DQ, COMMA, NL}
NoteInputs == StringsUpTo(NoteAlphabet, MaxNoteLen)

CodecExtras ==
    { <<>>,
      <<[k |-> S_tel, v |-> Str(<<"0", "3">>)]>>,
      <<[k |-> S_tags, v |-> Arr(<<Str(<<"t">>), Str(<<"u">>)>>)]>>,
      <<[k |-> S_website, v |-> Arr(<<>>)], [k |-> S_furigana, v |-> Str(<<>>)]>>,
      <<[k |-> S_customFields, v |-> Arr(<<KV(<<"k">>, <<"v">>), KV(<<"m">>, <<>>)>>)]>> }

CodecCard(company, notes, extra, id) ==
    MakeCard(<<[k |-> S_companyName, v |-> Str(company)],
               [k |-> S_name, v |-> Str(<<"J">>)],
               [k |-> S_notes, v |-> Str(notes)]>> \o extra, Num(id))

CodecCardLists ==
    {<<CodecCard(<<"A">>, n, x, 1)>> : n \in NoteInputs, x \in CodecExtras}
    \cup {<<CodecCard(<<"A">>, n, <<>>, 1), CodecCard(<<"B">>, <<"a">>, x, 2)>> :
            n \in NoteInputs, x \in CodecExtras}

NoJob == [kind |-> "none", fmt |-> "none", pc |-> "idle",
          input |-> <<>>, text |-> <<>>, output |-> <<>>]

CodecJobs ==
    {[kind |-> "field", fmt |-> "csv", pc |-> "input",
      input |-> Str(s), text |-> <<>>, output |-> <<>>] : s \in FieldInputs}
    \cup {[kind |-> "cards", fmt |-> f, pc |-> "input",
           input |-> cs, text |-> <<>>, output |-> <<>>] :
            f \in {"csv", "txt"}, cs \in CodecCardLists}

\* ------------------------------------------------------- codec steps
EncodeField ==
    /\ job.kind = "field" /\ job.pc = "input"
    /\ job' = [job EXCEPT !.pc = "encoded", !.text = formatCsvField(job.input)]
    /\ UNCHANGED appVars

TokenizeField ==
    /\ job.kind = "field" /\ job.pc = "encoded"
    /\ job' = [job EXCEPT !.pc = "decoded", !.output = parseCsvLine(job.text)]
    /\ UNCHANGED appVars

ExportCards ==
    /\ job.kind = "cards" /\ job.pc = "input"
    /\ job' = [job EXCEPT !.pc = "encoded", !.text = handleExport(job.input, job.fmt)]
    /\ UNCHANGED appVars

DecodeCards ==
    /\ job.kind = "cards" /\ job.pc = "encoded"
    /\ job' = [job EXCEPT !.pc = "decoded",
                          !.output = IF job.fmt = "csv"
                                     THEN parseCardCsv(readAsText(job.text))
                                     ELSE parseCardTxt(readAsText(job.text))]
    /\ UNCHANGED appVars



\* ------------------------------------------------------- the household account book
\* useState({ receipts: [], fixedCosts: {}, oshi: { name: '', url: '' }, shoppingList: [] })
InitialData ==
    [receipts |-> <<>>, fixedCosts |-> <<>>, oshi |-> [name |-> "", url |-> ""],
     shoppingList |-> <<>>]

\* driveFileId === null
NoFileId == "null"

\* the Drive files the user can reach: A is an account book in use, B is a
\* file that is new and empty (loadFile gives {} for it)
FileIds == {"A", "B"}

DriveAtStart ==
    [A |-> [InitialData EXCEPT !.oshi = [name |-> "a", url |-> ""]],
     B |-> <<>>]

\* seen.scanFrom: how the scan screen was entered; seen.hadFile: a file was
\* loaded before the current one; seen.dirty, seen.failed: a save has been
\* issued, has failed, since the current file was loaded; seen.data: what the
\* last load read; seen.items: what the last scan returned
SeenAtStart ==
    [op |-> "start", scanFrom |-> "none", hadFile |-> FALSE, dirty |-> FALSE,
     failed |-> FALSE, data |-> <<>>, items |-> <<>>, attempts |-> 0]

\* the state after the token callback for a user with no saved file id:
\* setUser(loggedInUser); setIsLoading(false)
HouseStart ==
    /\ driveFileId = NoFileId
    /\ isLoading = FALSE
    /\ currentScreen = "home"
    /\ allData = InitialData
    /\ stagedReceipt = Null
    /\ isProcessing = FALSE
    /\ houseError = ""
    /\ fileLoadError = Null
    /\ drive = DriveAtStart
    /\ saves = <<>>
    /\ loads = <<>>
    /\ scans = <<>>
    /\ clock = 1
    /\ seen = SeenAtStart
\* ------------------------------------------------------- the application
NoMemos == [id \in {} |-> <<>>]

\* JSON.stringify(value): the text of an item, kept as the value it denotes
stringify(value) == [t |-> "json", value |-> value]

\* getItem gives null for an item that was never written
EmptyStorage ==
    [businessCards |-> Null, businessCardMemos |-> Null, insurancePolicies |-> Null,
     recentBusinessCards |-> Null, recentInsurancePolicies |-> Null]

\* last.done: the file of an import that ran from start to end with no other step
\* in between and with only goBack since; last.after: what last.done was when the
\* import was started
OtherStep == [op |-> "other", done |-> <<>>]

AppInit ==
    /\ cards = <<>>
    /\ policies = <<>>
    /\ memos = NoMemos
    /\ history = <<"main">>
    /\ localStorage = EmptyStorage
    /\ pending = <<>>
    /\ nextId = 1
    /\ storageFull = FALSE
    /\ last = OtherStep
    /\ currentPolicyAnalysis = Null
    /\ calls = <<>>
    /\ recentCardIds = <<>>
    /\ recentPolicyIds = <<>>
    /\ HouseStart

\* the screen that is shown: the last entry of the history
view == history[Len(history)]

setItem_Unguarded(store, key, value) == [store EXCEPT ![key] = stringify(value)]

\* localStorage.setItem inside try/catch: a write that throws (the quota is
\* exceeded) is logged and leaves the item as it was
setItem(store, key, value) ==
    IF storageFull THEN store ELSE [store EXCEPT ![key] = stringify(value)]

\* handleImportData(file): reader.readAsText(file) is started; the onload handler
\* keeps the cards and policies of the render that created it
handleImportData(f) ==
    /\ view = "main"
    /\ Len(pending) < MaxPending
    /\ pending' = Append(pending,
                         [file |-> f, cards |-> cards, policies |-> policies])
    /\ last' = [op |-> "start", file |-> f, after |-> last.done, done |-> <<>>]
    /\ UNCHANGED <<cards, policies, memos, history, localStorage, storageFull, nextId, job, recentVars, houseVars,
                 currentPolicyAnalysis, calls>>

Remove(seq, i) == SubSeq(seq, 1, i - 1) \o SubSeq(seq, i + 1, Len(seq))

\* reader.onload of the i-th pending import
readerOnload(i) ==
    /\ i \in 1..Len(pending)
    /\ \E e \in {onload(Corpus[pending[i].file], pending[i].cards,
                          pending[i].policies, nextId)} :
          /\ nextId + e.ids - 1 <= MaxId
          /\ cards' = IF e.updateCards # <<>> THEN e.updateCards[1] ELSE cards
          /\ policies' = IF e.updatePolicies # <<>> THEN e.updatePolicies[1]
                         ELSE policies
          /\ localStorage' =
                IF e.updateCards # <<>>
                THEN setItem(localStorage, "businessCards", e.updateCards[1])
                ELSE IF e.updatePolicies # <<>>
                THEN setItem(localStorage, "insurancePolicies", e.updatePolicies[1])
                ELSE localStorage
          /\ history' = history \o e.navigateTo
          /\ nextId' = nextId + e.ids
          /\ last' = [op |-> "load", file |-> pending[i].file,
                      after |-> IF last.op = "start" /\ i = Len(pending)
                                THEN last.after ELSE <<>>,
                      done |-> IF last.op = "start" /\ i = Len(pending)
                               THEN <<pending[i].file>> ELSE <<>>,
                      closedCards |-> pending[i].cards,
                      closedPolicies |-> pending[i].policies,
                      cards |-> cards, policies |-> policies,
                      history |-> history, localStorage |-> localStorage,
                      fresh |-> nextId, branch |-> e.branch,
                      decoded |-> e.decoded, alert |-> e.alert]
    /\ pending' = Remove(pending, i)
    /\ UNCHANGED <<memos, storageFull, job, recentVars, houseVars,
                 currentPolicyAnalysis, calls>>

CardIds == {Get(cards[i], S_id).n : i \in 1..Len(cards)}

\* handleDeleteCard(cardId), the user confirming
handleDeleteCard(cardId) ==
    /\ cardId \in CardIds
    /\ cards' = SelectSeq(cards, LAMBDA c : Get(c, S_id) # Num(cardId))
    /\ memos' = [id \in DOMAIN memos \ {cardId} |-> memos[id]]
    /\ localStorage' = setItem(setItem(localStorage, "businessCards", cards'),
                               "businessCardMemos", memos')
    /\ history' = <<"main", "list">>
    /\ last' = OtherStep
    /\ UNCHANGED <<policies, storageFull, pending, nextId, job, recentVars, houseVars,
                 currentPolicyAnalysis, calls>>

\* goBack()
goBack ==
    /\ history' = IF Len(history) > 1 THEN SubSeq(history, 1, Len(history) - 1)
                  ELSE history
    /\ last' = [OtherStep EXCEPT !.done = last.done]
    /\ UNCHANGED <<cards, policies, memos, localStorage, storageFull, pending, nextId, job, recentVars, houseVars,
                 currentPolicyAnalysis, calls>>

Init == AppInit /\ job = NoJob

Next ==
    \/ \E f \in DOMAIN Corpus : handleImportData(f)
    \/ \E i \in 1..MaxPending : readerOnload(i)
    \/ \E cardId \in 1..MaxId : handleDeleteCard(cardId)
    \/ goBack

Spec == Init /\ [][Next]_vars

\* the quota of localStorage is used up: from now on setItem throws
storageFills ==
    /\ ~storageFull
    /\ storageFull' = TRUE
    /\ last' = OtherStep
    /\ UNCHANGED <<cards, policies, memos, history, localStorage, pending, nextId, job, recentVars, houseVars,
                   currentPolicyAnalysis, calls>>

\* the files picked while the quota is watched: cards, policies, a rejected one
QuotaFiles == {"cardsCsv", "mixedCsv", "policyCsv", "policyTxt", "otherCsv"}

QuotaNext ==
    \/ \E f \in QuotaFiles : handleImportData(f)
    \/ \E i \in 1..MaxPending : readerOnload(i)
    \/ \E cardId \in 1..MaxId : handleDeleteCard(cardId)
    \/ goBack
    \/ storageFills

QuotaSpec == Init /\ [][QuotaNext]_vars

CodecInit == AppInit /\ job \in CodecJobs

CodecNext == EncodeField \/ TokenizeField \/ ExportCards \/ DecodeCards

CodecSpec == CodecInit /\ [][CodecNext]_vars


\* ------------------------------------------------------- the policy analysis
\* the picture the camera takes (a data URL)
Images == {<<"1">>}

\* what the extraction service can answer: a list of { key, value }
Results == {<<>>, <<[key |-> <<"k">>, value |-> <<"v">>]>>}

\* the title the user types into the prompt of handleSave
Titles == {<<"T">>}

S_extractionFailed == <<"e", "x", "t", "r", "a", "c", "t", "i", "o", "n", " ", "f", "a", "i", "l", "e", "d">>

\* { images, fields, isAnalyzing, error }
PolicyAnalysis(images, fields, isAnalyzing, error) ==
    [images |-> images, fields |-> fields, isAnalyzing |-> isAnalyzing, error |-> error]

\* a call keeps, beside newImages, the state its handler started from (before);
\* last.direct of a settled call: the call was started by the step just before
AnalysisStep(op) == [op |-> op, done |-> <<>>]

\* handleStartNewAnalysis(), the button of the main screen
handleStartNewAnalysis ==
    /\ view = "main"
    /\ Len(history) < MaxHistory
    /\ currentPolicyAnalysis' = PolicyAnalysis(<<>>, <<>>, FALSE, Null)
    /\ history' = Append(history, "analysisTool")
    /\ last' = AnalysisStep("startAnalysis")
    /\ UNCHANGED <<cards, policies, memos, localStorage, storageFull, pending, nextId, job, recentVars, houseVars, calls>>

\* handleAddImageToAnalysis(image) up to its await, called by handleCapture of
\* the camera screen: nothing tests isAnalyzing before the call is made
handleAddImageToAnalysis(image) ==
    /\ view = "analysisTool"
    /\ currentPolicyAnalysis # Null
    /\ Len(currentPolicyAnalysis.images) < MaxImages
    /\ Len(calls) < MaxCalls
    /\ Len(history) < MaxHistory
    /\ LET newImages == Append(currentPolicyAnalysis.images, image) IN
          /\ currentPolicyAnalysis' =
                [currentPolicyAnalysis EXCEPT !.images = newImages,
                                              !.isAnalyzing = TRUE, !.error = Null]
          /\ calls' = Append(calls, [images |-> newImages,
                                     before |-> [currentPolicyAnalysis |-> currentPolicyAnalysis,
                                                 history |-> history,
                                                 cards |-> cards,
                                                 policies |-> policies]])
    /\ history' = Append(history, "dynamicAnalysis")
    /\ last' = AnalysisStep("call")
    /\ UNCHANGED <<cards, policies, memos, localStorage, storageFull, pending, nextId, job, recentVars, houseVars>>

\* result.map((field, index) => ({ id: Date.now() + index, ...field }))
NewFields(result, now) ==
    [index \in 1..Len(result) |->
        PolicyField(Num(now + index - 1), result[index].key, result[index].value)]

\* a response applied the way the catch block does it (prev ? ... : null):
\* dropped when the analysis has been cancelled
analyzePolicyResolved_IfStillOpen(i, result) ==
    /\ i \in 1..Len(calls)
    /\ nextId + Len(result) - 1 <= MaxId
    /\ currentPolicyAnalysis' =
          IF currentPolicyAnalysis # Null
          THEN PolicyAnalysis(calls[i].images, NewFields(result, nextId), FALSE, Null)
          ELSE Null
    /\ nextId' = nextId + Len(result)
    /\ calls' = Remove(calls, i)
    /\ last' = [op |-> "resolved", done |-> <<>>,
                cancelled |-> currentPolicyAnalysis = Null,
                images |-> calls[i].images]
    /\ UNCHANGED <<cards, policies, memos, history, localStorage, storageFull, pending, job, recentVars, houseVars>>

\* the await of call i returns: the rest of the try block, which sets the
\* analysis whatever it is by now; last.cancelled: it was null when the
\* response came
analyzePolicyResolved(i, result) ==
    /\ i \in 1..Len(calls)
    /\ nextId + Len(result) - 1 <= MaxId
    /\ currentPolicyAnalysis' =
          PolicyAnalysis(calls[i].images, NewFields(result, nextId), FALSE, Null)
    /\ nextId' = nextId + Len(result)
    /\ calls' = Remove(calls, i)
    /\ last' = [op |-> "resolved", done |-> <<>>,
                cancelled |-> currentPolicyAnalysis = Null,
                images |-> calls[i].images]
    /\ UNCHANGED <<cards, policies, memos, history, localStorage, storageFull, pending, job, recentVars, houseVars>>

\* the await of call i throws (the service fails, or its payload cannot be
\* parsed): the catch block
analyzePolicyRejected(i) ==
    /\ i \in 1..Len(calls)
    /\ currentPolicyAnalysis' =
          IF currentPolicyAnalysis # Null
          THEN [currentPolicyAnalysis EXCEPT !.isAnalyzing = FALSE,
                                            !.error = Str(S_extractionFailed)]
          ELSE Null
    /\ calls' = Remove(calls, i)
    /\ last' = [op |-> "rejected", done |-> <<>>,
                direct |-> last.op = "call" /\ i = Len(calls),
                before |-> calls[i].before]
    /\ UNCHANGED <<cards, policies, memos, history, localStorage, storageFull, pending, nextId, job, recentVars, houseVars>>

\* the button that adds a page on the result screen: navigateTo('analysisTool');
\* it has no disabled attribute
addPage ==
    /\ view = "dynamicAnalysis"
    /\ currentPolicyAnalysis # Null
    /\ Len(history) < MaxHistory
    /\ history' = Append(history, "analysisTool")
    /\ last' = AnalysisStep("addPage")
    /\ UNCHANGED <<cards, policies, memos, localStorage, storageFull, pending, nextId, job, recentVars, houseVars,
                   currentPolicyAnalysis, calls>>

\* cancelCurrentAnalysis(), the user confirming
cancelCurrentAnalysis ==
    /\ view = "dynamicAnalysis"
    /\ currentPolicyAnalysis # Null
    /\ currentPolicyAnalysis' = Null
    /\ history' = IF Len(history) > 1 THEN SubSeq(history, 1, Len(history) - 1)
                  ELSE history
    /\ last' = AnalysisStep("cancel")
    /\ UNCHANGED <<cards, policies, memos, localStorage, storageFull, pending, nextId, job, recentVars, houseVars, calls>>

\* { id: Date.now(), title, imageUrls: images, fields }
NewPolicy(id, title, analysis) ==
    <<[k |-> S_id, v |-> Num(id)],
      [k |-> S_title, v |-> Str(title)],
      [k |-> S_imageUrls, v |-> StrList(analysis.images)],
      [k |-> S_fields, v |-> Arr(analysis.fields)]>>

\* handleSaveCurrentAnalysis(title), called by handleSave of the result screen;
\* the save button is disabled while isAnalyzing or without images
handleSaveCurrentAnalysis(title) ==
    /\ view = "dynamicAnalysis"
    /\ currentPolicyAnalysis # Null
    /\ ~currentPolicyAnalysis.isAnalyzing
    /\ Len(currentPolicyAnalysis.images) # 0
    /\ nextId <= MaxId
    /\ policies' = Append(policies, NewPolicy(nextId, title, currentPolicyAnalysis))
    /\ localStorage' = setItem(localStorage, "insurancePolicies", policies')
    /\ nextId' = nextId + 1
    /\ currentPolicyAnalysis' = Null
    /\ history' = <<"main", "analysisList">>
    /\ last' = AnalysisStep("save")
    /\ UNCHANGED <<cards, memos, storageFull, pending, job, recentVars, houseVars, calls>>

AnalysisNext ==
    \/ handleStartNewAnalysis
    \/ \E image \in Images : handleAddImageToAnalysis(image)
    \/ \E i \in 1..MaxCalls : \E result \in Results : analyzePolicyResolved(i, result)
    \/ \E i \in 1..MaxCalls : analyzePolicyRejected(i)
    \/ addPage
    \/ cancelCurrentAnalysis
    \/ \E title \in Titles : handleSaveCurrentAnalysis(title)
    \/ goBack

AnalysisSpec == Init /\ [][AnalysisNext]_vars

\* ------------------------------------------------------- the column mapper
\* headers of the uploaded sheet: お名前, 会社, 備考
S_onamae == <<"o", "n", "a", "m", "a", "e">>
S_kaisha == <<"k", "a", "i", "s", "h", "a">>
S_bikou == <<"b", "i", "k", "o", "u">>
S_semiSpace == <<SEMI, SP>>

ExcelHeaderNames == {S_onamae, S_kaisha, S_bikou}

\* the header rows drawn: up to MaxHeaders headers, no name twice
ExcelHeaderLists ==
    {hs \in UNION {[1..n -> ExcelHeaderNames] : n \in 1..MaxHeaders} :
        \A i, j \in 1..Len(hs) : i # j => hs[i] # hs[j]}

\* the cards of the application while the sheet is filled (sourceData)
MapperCards ==
    <<MakeCard(<<[k |-> S_companyName, v |-> Str(<<"A", "c", "m", "e">>)],
                 [k |-> S_name, v |-> Str(<<"J", "a", "n", "e">>)],
                 [k |-> S_tags, v |-> Arr(<<Str(<<"t">>), Str(<<"u">>)>>)],
                 [k |-> S_customFields,
                  v |-> Arr(<<KV(<<"k">>, <<"v">>), KV(<<"m">>, <<"n">>)>>)]>>, Num(1)),
      MakeCard(<<[k |-> S_companyName, v |-> Str(<<"B">>)],
                 [k |-> S_name, v |-> Str(<<"B", "o", "b">>)]>>, Num(2))>>

\* the options of a select of step 2 that are drawn: not mapped, or a field
SourceChoices == {<<>>, S_name, S_companyName, S_tags, S_customFields}

\* a row the uploaded sheet already holds below its header row
OldRow(headers) == [j \in 1..Len(headers) |-> Str(<<"o">>)]

\* XLSX.utils.sheet_to_json(ws, { header: 1, defval: "" }) of the uploaded
\* sheet: the header row and the rows below it
Workbooks ==
    {<<StrList(hs).xs>> : hs \in ExcelHeaderLists}
    \cup {<<StrList(hs).xs, OldRow(hs)>> : hs \in ExcelHeaderLists}

\* the screen after handleFileChange has read the file
MapperJobs ==
    {[kind |-> "excel", step |-> 1, workbook |-> wb, excelHeaders |-> <<>>,
      columnMapping |-> <<>>, mappedData |-> <<>>, written |-> <<>>] : wb \in Workbooks}

\* handleProceedToMapping(): headers = jsonData[0].map(String)
handleProceedToMapping ==
    /\ job.kind = "excel" /\ job.step = 1
    /\ Len(job.workbook) # 0
    /\ job' = [job EXCEPT !.excelHeaders =
                              [j \in 1..Len(job.workbook[1]) |-> String(job.workbook[1][j])],
                          !.step = 2]
    /\ UNCHANGED appVars

\* onChange of the select of a header:
\* setColumnMapping(prev => ({ ...prev, [header]: e.target.value }))
selectSource(header, value) ==
    /\ job.kind = "excel" /\ job.step = 2
    /\ \E j \in 1..Len(job.excelHeaders) : job.excelHeaders[j] = header
    /\ job' = [job EXCEPT !.columnMapping = Put(job.columnMapping, header, Str(value))]
    /\ UNCHANGED appVars

\* the cell handlePreview writes for a header mapped to sourceHeader
MapCell_Blank(sourceRow, sourceHeader) == Str(<<>>)

MapCell(sourceRow, sourceHeader) ==
    LET value == Get(sourceRow, String(sourceHeader)) IN
    IF Truthy(sourceHeader) /\ value # Undefined
    THEN IF value.t = "arr"
         THEN IF sourceHeader = Str(S_customFields)
              THEN Str(Join([i \in 1..Len(value.xs) |-> KeyColonValue(value.xs[i])],
                            S_semiSpace))
              ELSE Str(JoinValues(value, S_commaSpace))
         ELSE value
    ELSE Str(<<>>)

\* excelHeaders.forEach(excelHeader => { newRow[excelHeader] = ... })
RECURSIVE MapRow(_, _, _, _)
MapRow(sourceRow, excelHeaders, columnMapping, newRow) ==
    IF excelHeaders = <<>> THEN newRow
    ELSE MapRow(sourceRow, Tail(excelHeaders), columnMapping,
                Put(newRow, Head(excelHeaders),
                    MapCell(sourceRow, Get(columnMapping, Head(excelHeaders)))))

\* handlePreview(): the rows, one object per record
MapRows(sourceData, excelHeaders, columnMapping) ==
    [i \in 1..Len(sourceData) |-> MapRow(sourceData[i], excelHeaders, columnMapping, <<>>)]

handlePreview ==
    /\ job.kind = "excel" /\ job.step = 2
    /\ job' = [job EXCEPT !.mappedData =
                              MapRows(MapperCards, job.excelHeaders, job.columnMapping),
                          !.step = 3]
    /\ UNCHANGED appVars

\* XLSX.utils.json_to_sheet(data, { header }): the header row, then one row per
\* object with its values in the order of header
json_to_sheet(data, header) ==
    <<StrList(header).xs>>
    \o [i \in 1..Len(data) |-> [j \in 1..Len(header) |-> Get(data[i], header[j])]]

\* handleDownload(): the sheet of the file that is written
handleDownload ==
    /\ job.kind = "excel" /\ job.step = 3
    /\ Len(job.mappedData) # 0
    /\ job.written = <<>>
    /\ job' = [job EXCEPT !.written = json_to_sheet(job.mappedData, job.excelHeaders)]
    /\ UNCHANGED appVars

MapperInit == AppInit /\ job \in MapperJobs

MapperNext ==
    \/ handleProceedToMapping
    \/ \E header \in ExcelHeaderNames : \E value \in SourceChoices : selectSource(header, value)
    \/ handlePreview
    \/ handleDownload

MapperSpec == MapperInit /\ [][MapperNext]_vars

\* ------------------------------------------------------- the exported files
\* CardListScreen.handleExport of the second variant of the application: the
\* same content, new Blob([content])
handleExportPart001(cardsToExport, format) ==
    IF format = "csv" THEN CardCsvContent(cardsToExport)
    ELSE CardTxtContent(cardsToExport)

\* an export of selected cards in one variant of the application
ExportJobs ==
    {[kind |-> "export", variant |-> v, fmt |-> f, pc |-> "input",
      input |-> cs, text |-> <<>>, output |-> <<>>] :
        v \in {"part_000", "part_001"}, f \in {"csv", "txt"}, cs \in CodecCardLists}

ExportPart000 ==
    /\ job.kind = "export" /\ job.variant = "part_000" /\ job.pc = "input"
    /\ job' = [job EXCEPT !.pc = "written", !.text = handleExport(job.input, job.fmt)]
    /\ UNCHANGED appVars

ExportPart001 ==
    /\ job.kind = "export" /\ job.variant = "part_001" /\ job.pc = "input"
    /\ job' = [job EXCEPT !.pc = "written", !.text = handleExportPart001(job.input, job.fmt)]
    /\ UNCHANGED appVars

ExportInit == AppInit /\ job \in ExportJobs

ExportNext == ExportPart000 \/ ExportPart001

ExportSpec == ExportInit /\ [][ExportNext]_vars

\* ------------------------------------------------------- the texts that are split
SplitAlphabet == {"a", DQ, NL}
SplitInputs == StringsUpTo(SplitAlphabet, MaxSplitLen)

SplitJobs ==
    {[kind |-> "split", fmt |-> "csv", pc |-> "input",
      input |-> s, text |-> <<>>, output |-> <<>>] : s \in SplitInputs}

\* csv.split(/\r?\n(?=(?:[^"]*"[^"]*")*[^"]*$)/)
SplitText ==
    /\ job.kind = "split" /\ job.pc = "input"
    /\ job' = [job EXCEPT !.pc = "done", !.output = SplitLogicalLines(job.input)]
    /\ UNCHANGED appVars

SplitInit == AppInit /\ job \in SplitJobs

SplitNext == SplitText

SplitSpec == SplitInit /\ [][SplitNext]_vars

\* ------------------------------------------------------- the exported policy
S_imageUrlsLabel == <<"I", "m", "a", "g", "e", " ", "U", "R", "L", "s", ":", " ">>
S_fieldsRule == <<"-", "-", "-", " ", "F", "i", "e", "l", "d", "s", " ", "-", "-", "-">>
S_policyRule == [i \in 1..27 |-> DASH]

\* fields.forEach(field => { content += `${field.key}: ${field.value}\n` })
PolicyTxtFields(fields) ==
    Concat([i \in 1..Len(fields) |->
               fields[i].key \o S_colonSpace \o fields[i].value \o <<NL>>])

\* PolicyDetailScreen.handleExport('txt'): the content of the file
PolicyTxtContent(title, imageUrls, fields) ==
    S_policyMarker \o <<SP>> \o title \o <<SP, DASH, DASH, DASH, NL>>
    \o S_imageUrlsLabel \o Join(imageUrls, S_commaSpace) \o <<NL, NL>>
    \o S_fieldsRule \o <<NL>>
    \o PolicyTxtFields(fields)
    \o S_policyRule \o <<NL>>

\* the policies that are exported: a title, the pictures, the extracted fields
PolicyTitles == {<<"T">>, <<"U", SP, "V">>}
PolicyImageLists == {<<>>, <<<<"a">>>>, <<<<"a">>, <<"b">>>>}
PolicyFieldPairs ==
    {PolicyField(Num(0), k, v) :
        k \in {<<"k">>, <<"m">>}, v \in {<<"v">>, <<"x", COLON, SP, "y">>}}
PolicyFieldLists ==
    {<<>>} \cup {<<f>> : f \in PolicyFieldPairs}
    \cup {<<f, g>> : f \in PolicyFieldPairs, g \in PolicyFieldPairs}

PolicyJobs ==
    {[kind |-> "policy", fmt |-> "txt", pc |-> "input",
      input |-> [title |-> t, imageUrls |-> is, fields |-> fs],
      text |-> <<>>, output |-> <<>>] :
        t \in PolicyTitles, is \in PolicyImageLists, fs \in PolicyFieldLists}

\* the export of the policy of the detail screen
ExportPolicy ==
    /\ job.kind = "policy" /\ job.pc = "input"
    /\ job' = [job EXCEPT !.pc = "written",
                          !.text = PolicyTxtContent(job.input.title, job.input.imageUrls,
                                                    job.input.fields)]
    /\ UNCHANGED appVars

\* the import of the exported file into empty collections: the policies that
\* updatePolicies is called with
ImportPolicy ==
    /\ job.kind = "policy" /\ job.pc = "written"
    /\ LET file == [name |-> <<"a">> \o S_txtExt, content |-> job.text]
           effect == onload(file, <<>>, <<>>, 1)
       IN job' = [job EXCEPT !.pc = "read",
                             !.output = IF effect.updatePolicies = <<>> THEN <<>>
                                        ELSE effect.updatePolicies[1]]
    /\ UNCHANGED appVars

PolicyInit == AppInit /\ job \in PolicyJobs

PolicyNext == ExportPolicy \/ ImportPolicy

PolicySpec == PolicyInit /\ [][PolicyNext]_vars

\* ------------------------------------------------------- the account book: bounds
\* saveFile calls that may be outstanding
MaxSaves == 2
\* receipts confirmed in one run
MaxReceipts == 2
\* items a staged receipt may hold
MaxItems == 2

\* const maxRetries = 2; // Total of 3 attempts
maxRetries == 2

\* ------------------------------------------------------- loading the Drive file
\* { ...prev, ...data }
Merged(prev, data) ==
    [k \in DOMAIN prev \cup DOMAIN data |-> IF k \in DOMAIN data THEN data[k] ELSE prev[k]]

\* the main screens can be used: a file is set and loaded, nothing is processed
Usable ==
    /\ driveFileId # NoFileId
    /\ ~isLoading
    /\ fileLoadError = Null
    /\ ~isProcessing

\* handleSetFileId(newFileId), from the form of FamilySetup, followed by the
\* effect on [driveFileId, user]: loadDataWithRetries up to its first await
handleSetFileId(newFileId) ==
    /\ ~isLoading
    /\ fileLoadError = Null
    /\ driveFileId = NoFileId \/ (currentScreen = "family-setup" /\ ~isProcessing)
    /\ newFileId # driveFileId
    /\ driveFileId' = newFileId
    /\ isLoading' = TRUE
    /\ fileLoadError' = Null
    /\ houseError' = ""
    /\ loads' = Append(loads, [fileId |-> newFileId, attempt |-> 0])
    /\ seen' = [seen EXCEPT !.op = "setFile", !.dirty = FALSE, !.failed = FALSE,
                            !.hadFile = seen.hadFile \/ driveFileId # NoFileId]
    /\ UNCHANGED <<currentScreen, allData, stagedReceipt, isProcessing, drive, saves,
                   scans, clock, bookVars, job>>

\* what a successful load leaves: setAllData(prev => ({ ...prev, ...data }));
\* setIsLoading(false)
AfterLoad_StillLoading(prev, data) == [allData |-> Merged(prev, data), isLoading |-> TRUE]

AfterLoad(prev, data) == [allData |-> Merged(prev, data), isLoading |-> FALSE]

\* driveApi.loadFile of run i returns the content of the file
loadFileResolved(i) ==
    /\ i \in 1..Len(loads)
    /\ LET data == drive[loads[i].fileId]
           after == AfterLoad(allData, data)
       IN /\ allData' = after.allData
          /\ isLoading' = after.isLoading
          /\ seen' = [seen EXCEPT !.op = "loaded", !.data = data,
                                  !.attempts = loads[i].attempt + 1]
    /\ loads' = Remove(loads, i)
    /\ UNCHANGED <<driveFileId, currentScreen, stagedReceipt, isProcessing, houseError,
                   fileLoadError, drive, saves, scans, clock, bookVars, job>>

\* detailedErrorMessage, the text the error screen shows
DetailedErrorMessage == [t |-> "message"]

\* driveApi.loadFile of run i throws: the next attempt after the delay, or,
\* after the last one, setFileLoadError(...) and setIsLoading(false)
loadFileRejected(i) ==
    /\ i \in 1..Len(loads)
    /\ IF loads[i].attempt < maxRetries
       THEN /\ loads' = [loads EXCEPT ![i].attempt = @ + 1]
            /\ seen' = [seen EXCEPT !.op = "retry"]
            /\ UNCHANGED <<fileLoadError, isLoading>>
       ELSE /\ loads' = Remove(loads, i)
            /\ fileLoadError' = DetailedErrorMessage
            /\ isLoading' = FALSE
            /\ seen' = [seen EXCEPT !.op = "loadFailed",
                                    !.attempts = loads[i].attempt + 1]
    /\ UNCHANGED <<driveFileId, currentScreen, allData, stagedReceipt, isProcessing,
                   houseError, drive, saves, scans, clock, bookVars, job>>

\* handleReturnToSetup(), from the error screen or the diagnoser
handleReturnToSetup ==
    /\ fileLoadError # Null
    /\ fileLoadError' = Null
    /\ houseError' = ""
    /\ driveFileId' = NoFileId
    /\ currentScreen' = "home"
    /\ seen' = [seen EXCEPT !.op = "returnToSetup", !.scanFrom = "none"]
    /\ UNCHANGED <<isLoading, allData, stagedReceipt, isProcessing, drive, saves, loads,
                   scans, clock, bookVars, job>>

\* onDiagnose of the error screen
onDiagnose ==
    /\ fileLoadError # Null
    /\ currentScreen # "drive-diagnoser"
    /\ currentScreen' = "drive-diagnoser"
    /\ seen' = [seen EXCEPT !.op = "diagnose", !.scanFrom = "none"]
    /\ UNCHANGED <<driveFileId, isLoading, allData, stagedReceipt, isProcessing, houseError,
                   fileLoadError, drive, saves, loads, scans, clock, bookVars, job>>

\* handleFileLoadedFromDiagnoser(fileId, data), the diagnoser having loaded the
\* file itself; a new file id starts loadDataWithRetries as well
handleFileLoadedFromDiagnoser(fileId) ==
    /\ fileLoadError # Null
    /\ currentScreen = "drive-diagnoser"
    /\ allData' = Merged(allData, drive[fileId])
    /\ driveFileId' = fileId
    /\ fileLoadError' = Null
    /\ IF fileId # driveFileId
       THEN /\ isLoading' = TRUE
            /\ houseError' = ""
            /\ loads' = Append(loads, [fileId |-> fileId, attempt |-> 0])
       ELSE UNCHANGED <<isLoading, houseError, loads>>
    /\ seen' = [seen EXCEPT !.op = "diagnosed", !.data = drive[fileId],
                            !.dirty = FALSE, !.failed = FALSE]
    /\ UNCHANGED <<currentScreen, stagedReceipt, isProcessing, drive, saves, scans, clock,
                   bookVars, job>>

\* ------------------------------------------------------- the screens
HomeScreens == {"receipt-scan", "shopping-list", "oshi-setup", "fixed-cost", "reports",
                "family-setup"}

\* onNavigate(screen) of Home
onNavigate(screen) ==
    /\ Usable
    /\ currentScreen = "home"
    /\ currentScreen' = screen
    /\ seen' = [seen EXCEPT !.op = "navigate",
                            !.scanFrom = IF screen = "receipt-scan" THEN "home" ELSE "none"]
    /\ UNCHANGED <<driveFileId, isLoading, allData, stagedReceipt, isProcessing, houseError,
                   fileLoadError, drive, saves, loads, scans, clock, bookVars, job>>

\* navigateHome(), the back button of a screen
navigateHome ==
    /\ Usable
    /\ currentScreen \in HomeScreens
    /\ currentScreen' = "home"
    /\ seen' = [seen EXCEPT !.op = "home", !.scanFrom = "none"]
    /\ UNCHANGED <<driveFileId, isLoading, allData, stagedReceipt, isProcessing, houseError,
                   fileLoadError, drive, saves, loads, scans, clock, bookVars, job>>

\* ------------------------------------------------------- saving
\* updateAndSaveData(newData) up to its await, for a handler `by`; Usable
\* holds, so driveFileId is set
updateAndSaveData(newData, by) ==
    /\ Len(saves) < MaxSaves
    /\ allData' = newData
    /\ saves' = Append(saves, [fileId |-> driveFileId, data |-> newData, by |-> by])

\* updateShoppingList(newList): an item is added, the list is cleared
updateShoppingList(newList) ==
    /\ Usable
    /\ currentScreen = "shopping-list"
    /\ newList # allData.shoppingList
    /\ updateAndSaveData([allData EXCEPT !.shoppingList = newList], "update")
    /\ seen' = [seen EXCEPT !.op = "update", !.dirty = TRUE]
    /\ UNCHANGED <<driveFileId, isLoading, currentScreen, stagedReceipt, isProcessing,
                   houseError, fileLoadError, drive, loads, scans, clock, bookVars, job>>

\* updateReceipts(updatedReceipts): the report deletes a receipt
updateReceipts(i) ==
    /\ Usable
    /\ currentScreen = "reports"
    /\ i \in 1..Len(allData.receipts)
    /\ updateAndSaveData([allData EXCEPT !.receipts = Remove(@, i)], "update")
    /\ seen' = [seen EXCEPT !.op = "update", !.dirty = TRUE]
    /\ UNCHANGED <<driveFileId, isLoading, currentScreen, stagedReceipt, isProcessing,
                   houseError, fileLoadError, drive, loads, scans, clock, bookVars, job>>

\* handleSaveFixedCosts(monthKey, costs)
handleSaveFixedCosts(monthKey, costs) ==
    /\ Usable
    /\ currentScreen = "fixed-cost"
    /\ LET updatedFixedCosts ==
              [k \in DOMAIN allData.fixedCosts \cup {monthKey} |->
                  IF k = monthKey THEN costs ELSE allData.fixedCosts[k]]
       IN updateAndSaveData([allData EXCEPT !.fixedCosts = updatedFixedCosts], "update")
    /\ currentScreen' = "home"
    /\ seen' = [seen EXCEPT !.op = "update", !.dirty = TRUE, !.scanFrom = "none"]
    /\ UNCHANGED <<driveFileId, isLoading, stagedReceipt, isProcessing,
                   houseError, fileLoadError, drive, loads, scans, clock, bookVars, job>>

\* handleSaveOshi(data)
handleSaveOshi(data) ==
    /\ Usable
    /\ currentScreen = "oshi-setup"
    /\ updateAndSaveData([allData EXCEPT !.oshi = data], "update")
    /\ currentScreen' = "home"
    /\ seen' = [seen EXCEPT !.op = "update", !.dirty = TRUE, !.scanFrom = "none"]
    /\ UNCHANGED <<driveFileId, isLoading, stagedReceipt, isProcessing,
                   houseError, fileLoadError, drive, loads, scans, clock, bookVars, job>>

\* the request of save i is carried out by Drive and its await returns; for
\* handleConfirmReceipt the rest of its try block and its finally
saveFileResolved(i) ==
    /\ i \in 1..Len(saves)
    /\ drive' = [drive EXCEPT ![saves[i].fileId] = saves[i].data]
    /\ saves' = Remove(saves, i)
    /\ IF saves[i].by = "confirm"
       THEN /\ stagedReceipt' = Null
            /\ currentScreen' = "home"
            /\ isProcessing' = FALSE
            /\ seen' = [seen EXCEPT !.op = "saved", !.scanFrom = "none"]
       ELSE /\ seen' = [seen EXCEPT !.op = "saved"]
            /\ UNCHANGED <<stagedReceipt, currentScreen, isProcessing>>
    /\ UNCHANGED <<driveFileId, isLoading, allData, houseError, fileLoadError, loads,
                   scans, clock, bookVars, job>>

\* the request of save i fails: the catch of updateAndSaveData and, for
\* handleConfirmReceipt, its catch and its finally
saveFileRejected(i) ==
    /\ i \in 1..Len(saves)
    /\ saves' = Remove(saves, i)
    /\ houseError' = "save"
    /\ IF saves[i].by = "confirm"
       THEN /\ currentScreen' = "home"
            /\ isProcessing' = FALSE
            /\ seen' = [seen EXCEPT !.op = "saveFailed", !.failed = TRUE, !.scanFrom = "none"]
       ELSE /\ seen' = [seen EXCEPT !.op = "saveFailed", !.failed = TRUE]
            /\ UNCHANGED <<currentScreen, isProcessing>>
    /\ UNCHANGED <<driveFileId, isLoading, allData, stagedReceipt, fileLoadError, drive,
                   loads, scans, clock, bookVars, job>>

\* ------------------------------------------------------- receipts
\* response.data of callApi('receipt_confirm')
ScanResults ==
    {[storeName |-> "s", items |-> <<"p">>], [storeName |-> "t", items |-> <<"q">>]}

\* currentItems.filter(item => item.checked): the items at the places in keep
RECURSIVE CheckedFrom(_, _, _)
CheckedFrom(items, keep, i) ==
    IF i > Len(items) THEN <<>>
    ELSE (IF i \in keep THEN <<items[i]>> ELSE <<>>) \o CheckedFrom(items, keep, i + 1)

\* handleScanComplete(images) up to its await
handleScanComplete ==
    /\ Usable
    /\ currentScreen = "receipt-scan"
    /\ stagedReceipt # Null => Len(stagedReceipt.items) < MaxItems
    /\ isProcessing' = TRUE
    /\ currentScreen' = "home"
    /\ scans' = Append(scans, [from |-> seen.scanFrom])
    /\ seen' = [seen EXCEPT !.op = "scan"]
    /\ UNCHANGED <<driveFileId, isLoading, allData, stagedReceipt, houseError, fileLoadError,
                   drive, saves, loads, clock, bookVars, job>>

\* the updater of setStagedReceipt: a staged receipt that is there takes the
\* new items after its own
Staged(prevStagedReceipt, newReceiptData) ==
    IF prevStagedReceipt # Null
    THEN [prevStagedReceipt EXCEPT !.items = @ \o newReceiptData.items]
    ELSE newReceiptData

\* the scan returns newReceiptData: the rest of the try block and the finally
scanResolved(i, newReceiptData) ==
    /\ i \in 1..Len(scans)
    /\ stagedReceipt' = Staged(stagedReceipt, newReceiptData)
    /\ currentScreen' = "receipt-confirm"
    /\ isProcessing' = FALSE
    /\ scans' = Remove(scans, i)
    /\ seen' = [seen EXCEPT !.op = "scanResolved", !.scanFrom = scans[i].from,
                            !.items = newReceiptData.items]
    /\ UNCHANGED <<driveFileId, isLoading, allData, houseError, fileLoadError,
                   drive, saves, loads, clock, bookVars, job>>

\* the scan fails: the catch and the finally
scanRejected(i) ==
    /\ i \in 1..Len(scans)
    /\ houseError' = "scan"
    /\ currentScreen' = "home"
    /\ isProcessing' = FALSE
    /\ scans' = Remove(scans, i)
    /\ seen' = [seen EXCEPT !.op = "scanFailed", !.scanFrom = "none"]
    /\ UNCHANGED <<driveFileId, isLoading, allData, stagedReceipt, fileLoadError,
                   drive, saves, loads, clock, bookVars, job>>

\* handleConfirmReceipt(data) up to the await of updateAndSaveData; data
\* holds the checked items, of which there is at least one
handleConfirmReceipt(keep) ==
    /\ Usable
    /\ currentScreen = "receipt-confirm"
    /\ stagedReceipt # Null
    /\ clock <= MaxReceipts
    /\ LET finalItems == CheckedFrom(stagedReceipt.items, keep, 1)
           newReceipt == [id |-> clock, storeName |-> stagedReceipt.storeName,
                          items |-> finalItems]
       IN /\ finalItems # <<>>
          /\ updateAndSaveData([allData EXCEPT !.receipts = Append(@, newReceipt)],
                               "confirm")
    /\ isProcessing' = TRUE
    /\ clock' = clock + 1
    /\ seen' = [seen EXCEPT !.op = "confirm", !.dirty = TRUE]
    /\ UNCHANGED <<driveFileId, isLoading, currentScreen, stagedReceipt, houseError,
                   fileLoadError, drive, loads, scans, bookVars, job>>

\* handleRetakeForUnchecked(currentItems)
handleRetakeForUnchecked(keep) ==
    /\ Usable
    /\ currentScreen = "receipt-confirm"
    /\ stagedReceipt # Null
    /\ stagedReceipt' = [stagedReceipt EXCEPT
                            !.items = CheckedFrom(stagedReceipt.items, keep, 1)]
    /\ currentScreen' = "receipt-scan"
    /\ seen' = [seen EXCEPT !.op = "retake", !.scanFrom = "retake"]
    /\ UNCHANGED <<driveFileId, isLoading, allData, isProcessing, houseError, fileLoadError,
                   drive, saves, loads, scans, clock, bookVars, job>>

\* handleDiscardAndStartOver(), the button and the back gesture of the
\* confirmation screen
handleDiscardAndStartOver ==
    /\ Usable
    /\ currentScreen = "receipt-confirm"
    /\ stagedReceipt' = Null
    /\ currentScreen' = "receipt-scan"
    /\ seen' = [seen EXCEPT !.op = "discard", !.scanFrom = "discard"]
    /\ UNCHANGED <<driveFileId, isLoading, allData, isProcessing, houseError, fileLoadError,
                   drive, saves, loads, scans, clock, bookVars, job>>

\* ------------------------------------------------------- the account book as a whole
ShoppingLists == {<<"milk">>}
OshiInputs == {[name |-> "x", url |-> ""]}
Costs == {<<"rent">>}
Keeps == SUBSET (1..MaxItems)

\* choosing the file and loading it
LoadNext ==
    \/ \E newFileId \in FileIds : handleSetFileId(newFileId)
    \/ \E i \in 1..1 : loadFileResolved(i)
    \/ \E i \in 1..1 : loadFileRejected(i)
    \/ handleReturnToSetup
    \/ onDiagnose
    \/ \E fileId \in FileIds : handleFileLoadedFromDiagnoser(fileId)
    \/ onNavigate("family-setup")
    \/ navigateHome

LoadSpec == Init /\ [][LoadNext]_vars

\* every call of loadFile returns or throws, and the delay before a retry ends
LoadFairSpec ==
    Init /\ [][LoadNext]_vars
         /\ WF_vars(\E i \in 1..1 : loadFileResolved(i) \/ loadFileRejected(i))

\* the screens that change the data, and the saves they start
DriveScreens == {"shopping-list", "oshi-setup", "fixed-cost", "family-setup"}

DriveNext ==
    \/ \E newFileId \in FileIds : handleSetFileId(newFileId)
    \/ \E i \in 1..1 : loadFileResolved(i)
    \/ \E screen \in DriveScreens : onNavigate(screen)
    \/ navigateHome
    \/ \E newList \in ShoppingLists : updateShoppingList(newList)
    \/ \E costs \in Costs : handleSaveFixedCosts("m", costs)
    \/ \E data \in OshiInputs : handleSaveOshi(data)
    \/ \E i \in 1..MaxSaves : saveFileResolved(i)
    \/ \E i \in 1..MaxSaves : saveFileRejected(i)

DriveSpec == Init /\ [][DriveNext]_vars

\* scanning, confirming and deleting receipts in the account book A
ReceiptScreens == {"receipt-scan", "reports"}

ReceiptNext ==
    \/ handleSetFileId("A")
    \/ \E i \in 1..1 : loadFileResolved(i)
    \/ \E screen \in ReceiptScreens : onNavigate(screen)
    \/ navigateHome
    \/ handleScanComplete
    \/ \E newReceiptData \in ScanResults : scanResolved(1, newReceiptData)
    \/ scanRejected(1)
    \/ \E keep \in Keeps : handleConfirmReceipt(keep)
    \/ \E keep \in Keeps : handleRetakeForUnchecked(keep)
    \/ handleDiscardAndStartOver
    \/ \E i \in 1..MaxReceipts : updateReceipts(i)
    \/ \E i \in 1..MaxSaves : saveFileResolved(i)
    \/ \E i \in 1..MaxSaves : saveFileRejected(i)

ReceiptSpec == Init /\ [][ReceiptNext]_vars
\* ------------------------------------------------------- navigation
\* setHistory(prev => [...prev, view])
Pushed_Replacing(prev, newView) == <<newView>>

Pushed(prev, newView) == Append(prev, newView)

\* the screen the add button opens (handleCreateManualCard, handleConfirmImages)
NavViews == {"confirm"}

\* navigateTo(view)
navigateTo(newView) ==
    /\ Len(history) < MaxHistory
    /\ history' = Pushed(history, newView)
    /\ last' = OtherStep
    /\ UNCHANGED <<cards, policies, memos, localStorage, storageFull, pending, nextId,
                   job, recentVars, houseVars, currentPolicyAnalysis, calls>>

\* what the form of the confirm screen hands to handleSaveCard
NewCardInputs ==
    {<<[k |-> S_companyName, v |-> Str(<<"A">>)], [k |-> S_name, v |-> Str(<<"J">>)]>>}

\* cardForClassification.images: null for a card typed by hand
CardImages == {Null, [front |-> Str(<<"1">>), back |-> Null]}

\* { ...newCardData, id: Date.now(), imageUrl: images?.front || null,
\*   imageUrlBack: images?.back || null }
NewCard(newCardData, images, id) ==
    Spread(newCardData,
           <<[k |-> S_id, v |-> Num(id)],
             [k |-> S_imageUrl,
              v |-> IF images # Null /\ Truthy(images.front) THEN images.front ELSE Null],
             [k |-> S_imageUrlBack,
              v |-> IF images # Null /\ Truthy(images.back) THEN images.back ELSE Null]>>)

\* handleSaveCard(newCardData), called by the classification step of the confirm
\* screen, which has set cardForClassification ({ data, images })
handleSaveCard(newCardData, images) ==
    /\ view = "confirm"
    /\ nextId <= MaxId
    /\ cards' = Append(cards, NewCard(newCardData, images, nextId))
    /\ localStorage' = setItem(localStorage, "businessCards", cards')
    /\ nextId' = nextId + 1
    /\ history' = <<"main", "list">>
    /\ last' = OtherStep
    /\ UNCHANGED <<policies, memos, storageFull, pending, job, recentVars, houseVars,
                   currentPolicyAnalysis, calls>>

\* the files picked while the navigation is watched
NavFiles == {"cardsCsv"}

\* one picture is taken at a time: the next one after the answer to the last
NavNext ==
    \/ \E newView \in NavViews : navigateTo(newView)
    \/ goBack
    \/ \E d \in NewCardInputs : \E images \in CardImages : handleSaveCard(d, images)
    \/ \E cardId \in 1..MaxId : handleDeleteCard(cardId)
    \/ \E f \in NavFiles : handleImportData(f)
    \/ \E i \in 1..MaxPending : readerOnload(i)
    \/ handleStartNewAnalysis
    \/ \E image \in Images : calls = <<>> /\ handleAddImageToAnalysis(image)
    \/ \E result \in Results : analyzePolicyResolved(1, result)
    \/ \E title \in Titles : handleSaveCurrentAnalysis(title)

NavSpec == Init /\ [][NavNext]_vars

\* ------------------------------------------------------- recently shown
\* the length slice(0, 15) cuts the recent lists to
RecentLimit == 15

\* the cards and the policies of the stored collection
MaxRecentIds == 16

\* [id, ...recentIds] cut to the limit: an id that is in the list stays twice
NewRecent_NoFilter(id, recentIds) ==
    SubSeq(<<id>> \o recentIds, 1,
           IF Len(recentIds) + 1 < RecentLimit THEN Len(recentIds) + 1 ELSE RecentLimit)

\* [id, ...recentIds.filter(recentId => recentId !== id)].slice(0, 15)
NewRecent(id, recentIds) ==
    LET all == <<id>> \o SelectSeq(recentIds, LAMBDA recentId : recentId # id)
    IN SubSeq(all, 1, IF Len(all) < RecentLimit THEN Len(all) ELSE RecentLimit)

PolicyIds == {Get(policies[i], S_id).n : i \in 1..Len(policies)}

\* handleSelectCard(id), called by the rows of the list and of the recent screen;
\* updateRecentCards sets the list and writes it to localStorage in a try/catch
handleSelectCard(id) ==
    /\ view \in {"list", "recent"}
    /\ id \in CardIds
    /\ Len(history) < MaxHistory
    /\ recentCardIds' = NewRecent(id, recentCardIds)
    /\ localStorage' = setItem(localStorage, "recentBusinessCards", recentCardIds')
    /\ history' = Pushed(history, "detail")
    /\ last' = [op |-> "selectCard", done |-> <<>>, id |-> id, before |-> recentCardIds]
    /\ UNCHANGED <<cards, policies, memos, storageFull, pending, nextId, job,
                   recentPolicyIds, houseVars, currentPolicyAnalysis, calls>>

\* handleSelectPolicy(id), called by the rows of the analysis list and of the
\* recent screen
handleSelectPolicy(id) ==
    /\ view \in {"analysisList", "recent"}
    /\ id \in PolicyIds
    /\ Len(history) < MaxHistory
    /\ recentPolicyIds' = NewRecent(id, recentPolicyIds)
    /\ localStorage' = setItem(localStorage, "recentInsurancePolicies", recentPolicyIds')
    /\ history' = Pushed(history, "policyDetail")
    /\ last' = [op |-> "selectPolicy", done |-> <<>>, id |-> id, before |-> recentPolicyIds]
    /\ UNCHANGED <<cards, policies, memos, storageFull, pending, nextId, job,
                   recentCardIds, houseVars, currentPolicyAnalysis, calls>>

\* what an earlier session has left in localStorage
StoredCards ==
    [id \in 1..MaxRecentIds |->
        NewCard(<<[k |-> S_companyName, v |-> Str(<<"A">>)],
                  [k |-> S_name, v |-> Str(<<"J">>)]>>, Null, id)]

StoredPolicies ==
    [id \in 1..MaxRecentIds |->
        NewPolicy(id, <<"T">>, PolicyAnalysis(<<>>, <<>>, FALSE, Null))]

\* the recent list after the ids 1..n were selected in this order
Downto(n) == [i \in 1..n |-> n + 1 - i]

StoredRecent == {Downto(n) : n \in {0, 1, RecentLimit - 1, RecentLimit}}

\* the state after the effect that reads localStorage at the start
RecentInit ==
    /\ cards = StoredCards
    /\ policies = StoredPolicies
    /\ memos = NoMemos
    /\ history = <<"main">>
    /\ recentCardIds \in StoredRecent
    /\ recentPolicyIds \in StoredRecent
    /\ localStorage =
          [EmptyStorage EXCEPT !.businessCards = stringify(StoredCards),
                               !.insurancePolicies = stringify(StoredPolicies),
                               !.recentBusinessCards = stringify(recentCardIds),
                               !.recentInsurancePolicies = stringify(recentPolicyIds)]
    /\ pending = <<>>
    /\ nextId = MaxRecentIds + 1
    /\ storageFull = FALSE
    /\ last = OtherStep
    /\ currentPolicyAnalysis = Null
    /\ calls = <<>>
    /\ HouseStart
    /\ job = NoJob

\* the screens that list cards and policies
RecentViews == {"list", "recent", "analysisList"}

RecentNext ==
    \/ \E newView \in RecentViews : navigateTo(newView)
    \/ \E id \in 1..MaxRecentIds : handleSelectCard(id)
    \/ \E id \in 1..MaxRecentIds : handleSelectPolicy(id)

RecentSpec == RecentInit /\ [][RecentNext]_vars


\* ------------------------------------------------------- properties
\* the attributes of CardData: those of CardDataInput, id and the two images
CardFields ==
    {S_companyName, S_name, S_furigana, S_department, S_title, S_zipCode,
     S_address, S_tel, S_mobileTel, S_fax, S_email, S_website, S_otherTel,
     S_notes, S_tags, S_classification, S_sns, S_customFields,
     S_id, S_imageUrl, S_imageUrlBack}

\* what an import sets itself on every record it stores
IdentityFields == {S_id, S_imageUrl, S_imageUrlBack}

\* a stored record carries the data of a decoded one
SameData(stored, decoded) ==
    \A k \in (Keys(stored) \cup Keys(decoded)) \ IdentityFields :
        Get(stored, k) = Get(decoded, k)

IsPrefix(p, s) == Len(p) <= Len(s) /\ SubSeq(s, 1, Len(p)) = p

\* the j-th smallest element of a set of numbers
Nth(S, j) == CHOOSE i \in S : Cardinality({k \in S : k <= i}) = j

\* the last step was reader.onload and it took a decoding branch
Decoded == last.op = "load" /\ last.alert.kind \in {"imported", "nothingNew"}

OfCards == last.alert.what = "cards"

\* the collection the import read when it was started, the collection just
\* before reader.onload ran, and the collection now
Closed == IF OfCards THEN last.closedCards ELSE last.closedPolicies
Before == IF OfCards THEN last.cards ELSE last.policies
After == IF OfCards THEN cards ELSE policies

\* the rows of the decoded batch whose identity key the collection read by the
\* import does not hold
NewRows ==
    {i \in 1..Len(last.decoded) :
        IF OfCards THEN CardKey(last.decoded[i]) \notin CardKeys(Closed)
        ELSE PolicyKey(last.decoded[i]) \notin PolicyKeys(Closed)}

\* C1: when a file is imported again right after an import of the same file has
\* completed, the second import adds no record: it reports nothing new, and the
\* cards, the policies and the stored items are what they were after the first
\* import.
C1_SecondImportAddsNothing ==
    (last.op = "load" /\ last.after = <<last.file>>) =>
        /\ last.alert.kind # "imported"
        /\ cards = last.cards
        /\ policies = last.policies
        /\ localStorage = last.localStorage

\* the second import of a two-row file, the first one having added both rows
C1_Witness ==
    /\ last.op = "load" /\ last.after = <<last.file>>
    /\ last.file = "mixedCsv"
    /\ last.alert.kind = "nothingNew"
    /\ Len(cards) = 2
    /\ \A i \in 1..2 : Get(cards[i], S_id).n < last.fresh
    /\ localStorage.businessCards = stringify(cards)

\* C2: an import of a decoded batch into the collection it read adds exactly the
\* rows of the batch whose identity key (companyName-name for a card, title for
\* a policy) is not a key of that collection, in the order of the batch, and the
\* number it reports is the number of records added; with no such row it
\* reports nothing new and leaves the collection as it is.
C2_AddedAreTheNewKeys ==
    Decoded =>
        IF NewRows = {}
        THEN last.alert.kind = "nothingNew" /\ After = Before
        ELSE /\ last.alert.kind = "imported"
             /\ last.alert.n = Cardinality(NewRows)
             /\ Len(After) = Len(Closed) + Cardinality(NewRows)
             /\ \A j \in 1..Cardinality(NewRows) :
                   SameData(After[Len(Closed) + j], last.decoded[Nth(NewRows, j)])

\* one card exists, the file has a row with its key and a row with a new key:
\* one record is added, the one of the second row
C2_Witness ==
    /\ Decoded /\ OfCards
    /\ last.file = "mixedCsv"
    /\ Len(last.closedCards) = 1
    /\ NewRows = {2}
    /\ last.alert.n = 1
    /\ Len(cards) = 2
    /\ Get(cards[2], S_name) = Get(last.decoded[2], S_name)

\* C3: an import does not modify, overwrite, reorder or remove the records of
\* the collection it read when it was started: what it writes has that
\* collection as a prefix, also when a row of the file has the key of one of
\* those records; an import that writes nothing leaves cards and policies alone.
C3_ExistingRecordsKept ==
    last.op = "load" =>
        IF last.alert.kind = "imported"
        THEN /\ IsPrefix(Closed, After)
             /\ OfCards => policies = last.policies
             /\ ~OfCards => cards = last.cards
        ELSE cards = last.cards /\ policies = last.policies

\* an import that adds a record while another row of the file has the key of a
\* card that was there before
C3_Witness ==
    /\ Decoded /\ OfCards
    /\ last.alert.kind = "imported"
    /\ Closed # <<>>
    /\ \E i \in 1..Len(last.decoded) : CardKey(last.decoded[i]) \in CardKeys(Closed)
    /\ localStorage.businessCards = stringify(cards)

\* ------------------------------------------------------- properties of the codec
\* the attributes a card is exported with, the id aside
ContentFields == CardFields \ IdentityFields

\* characters the encoders use inside a value: list and key:value separators,
\* and the line break of the TXT dialect
SecondaryDelimiters == {SEMI, COLON, COMMA, NL}

Chars(s) == {s[i] : i \in 1..Len(s)}

\* the strings a value is made of
Strings(v) ==
    CASE v.t = "str" -> {v.s}
      [] v.t = "arr" -> UNION {IF x.t = "kv" THEN {x.key, x.value} ELSE {x.s} :
                                x \in {v.xs[i] : i \in 1..Len(v.xs)}}
      [] OTHER -> {}

Plain(card) ==
    \A i \in 1..Len(card) : \A s \in Strings(card[i].v) :
        Chars(s) \cap SecondaryDelimiters = {}

\* empty or absent
Blank(v) == v.t \in {"undef", "null"} \/ v = Str(<<>>) \/ v = Arr(<<>>)

\* the decoded record gives back the exported one, a field that was empty or
\* absent counting as equal to an empty or absent one
GivesBack(decoded, card) ==
    \A k \in ContentFields :
        \/ Get(decoded, k) = Get(card, k)
        \/ Blank(Get(decoded, k)) /\ Blank(Get(card, k))

RoundTrip ==
    /\ Len(job.output) = Len(job.input)
    /\ \A i \in 1..Len(job.input) : GivesBack(job.output[i], job.input[i])

\* C4: for cards whose fields hold no secondary delimiter, decoding the export
\* gives back the cards, in the CSV dialect and in the TXT dialect, but for
\* fields that were empty or absent.
C4_DecodeEncode ==
    (/\ job.kind = "cards" /\ job.pc = "decoded"
     /\ \A i \in 1..Len(job.input) : Plain(job.input[i])) => RoundTrip

\* C5: a CSV export of cards whose notes hold a line break decodes to one record
\* per card: the quoted line break does not end the logical line, and the notes
\* come back with the line break in them.
C5_QuotedNewlineOneRecord ==
    (job.kind = "cards" /\ job.fmt = "csv" /\ job.pc = "decoded") =>
        /\ Len(SplitLogicalLines(Trim(readAsText(job.text)))) = 1 + Len(job.input)
        /\ Len(job.output) = Len(job.input)
        /\ \A i \in 1..Len(job.input) :
              Get(job.output[i], S_notes) = Get(job.input[i], S_notes)

C5_Witness ==
    /\ job.kind = "cards" /\ job.fmt = "csv" /\ job.pc = "decoded"
    /\ Len(job.input) = 2
    /\ NL \in Chars(Get(job.input[1], S_notes).s)
    /\ Get(job.output[1], S_notes) = Get(job.input[1], S_notes)

\* C6: tokenizing formatCsvField(s) gives the one field s, for every string s;
\* He said "hi" is encoded as "He said ""hi""".
C6_FieldRoundTrip ==
    /\ (job.kind = "field" /\ job.pc = "decoded") => job.output = <<job.input.s>>
    /\ (job.kind = "field" /\ job.pc # "input" /\ job.input.s = S_heSaidHi) =>
           job.text = S_heSaidHiEncoded

C6_Witness ==
    /\ job.kind = "field" /\ job.pc = "decoded"
    /\ job.input.s = S_heSaidHi
    /\ job.text = S_heSaidHiEncoded
    /\ job.output = <<S_heSaidHi>>

\* ------------------------------------------------------- properties of the sniffer
\* the file of the last step: its name and its text as read
LastName == Corpus[last.file].name
LastText == readAsText(Corpus[last.file].content)

\* the cells of the first line of the trimmed text, each trimmed
HeaderCells(text) ==
    LET header == SniffHeader(text) IN {header[i] : i \in 1..Len(header)}

\* C7: for a file whose text is not blank, the branch reader.onload takes is
\* given by the extension and the text alone, by these rules in this order:
\* .csv with companyName and name in the header is a card CSV, else with title
\* and fields a policy CSV, else an unrecognized CSV; .txt with the card marker
\* is a card TXT, else with the policy marker a policy TXT, else an unrecognized
\* TXT; any other extension is an unsupported format.
C7_SnifferRules ==
    (last.op = "load" /\ Trim(LastText) # <<>>) =>
        last.branch =
            IF EndsWith(LastName, S_csvExt)
            THEN (IF {S_companyName, S_name} \subseteq HeaderCells(LastText)
                  THEN "CardCsv"
                  ELSE IF {S_title, S_fields} \subseteq HeaderCells(LastText)
                  THEN "PolicyCsv"
                  ELSE "UnrecognizedCsv")
            ELSE IF EndsWith(LastName, S_txtExt)
            THEN (IF Includes(LastText, S_cardMarker) THEN "CardTxt"
                  ELSE IF Includes(LastText, S_policyMarker) THEN "PolicyTxt"
                  ELSE "UnrecognizedTxt")
            ELSE "UnsupportedFormat"

\* a CSV whose header has the columns of both kinds is read as cards
C7_Witness ==
    /\ last.op = "load"
    /\ last.file = "bothCsv"
    /\ {S_companyName, S_name, S_title, S_fields} \subseteq HeaderCells(LastText)
    /\ last.branch = "CardCsv"
    /\ last.alert.kind = "imported"

\* C8: a file whose text is blank after trimming is rejected as empty input,
\* whatever its extension.
C8_BlankIsEmptyInput ==
    (last.op = "load" /\ Trim(LastText) = <<>>) => last.branch = "EmptyInput"

\* C9: an import that adds records writes them all in its one update, and an
\* import that fails (unsupported format, empty input, unrecognized schema)
\* only shows the error: cards, policies, the navigation history and the stored
\* items are what they were before.
C9_FailedImportCommitsNothing ==
    last.op = "load" =>
        /\ last.branch \in ImportErrors =>
              /\ last.alert.kind = "error"
              /\ cards = last.cards
              /\ policies = last.policies
              /\ history = last.history
              /\ localStorage = last.localStorage
        /\ last.alert.kind = "imported" =>
              Len(After) = Len(Closed) + last.alert.n

\* a failed import with cards and a policy in the collections
C9_Witness ==
    /\ last.op = "load"
    /\ last.branch \in ImportErrors
    /\ last.alert.kind = "error"
    /\ cards # <<>>
    /\ history = last.history

\* C10: a CSV column that is not an attribute of a card is ignored: neither the
\* decoded records nor the stored cards have an attribute of that name.
C10_UnknownColumnIgnored ==
    /\ \A i \in 1..Len(cards) : Keys(cards[i]) \subseteq CardFields
    /\ (last.op = "load" /\ last.branch = "CardCsv") =>
          \A i \in 1..Len(last.decoded) : Keys(last.decoded[i]) \subseteq CardFields

\* C11: every record an import stores has an identity drawn by that import, no
\* other record of the collection has it, and it carries no image: imageUrl and
\* imageUrlBack of a card are null, imageUrls of a policy is the empty list.
C11_FreshIdentityNoImages ==
    (last.op = "load" /\ last.alert.kind = "imported") =>
        \A j \in (Len(Closed) + 1)..Len(After) :
            /\ Get(After[j], S_id).n >= last.fresh
            /\ \A i \in 1..Len(After) :
                  i # j => Get(After[i], S_id) # Get(After[j], S_id)
            /\ IF OfCards
               THEN /\ Get(After[j], S_imageUrl) = Null
                    /\ Get(After[j], S_imageUrlBack) = Null
               ELSE Get(After[j], S_imageUrls) = Arr(<<>>)

\* C12: the list an import writes is computed from the value the list has at
\* the moment of the write: it is the list as it was just before reader.onload
\* ran, followed by the records the import adds, so that no update made since
\* the import was started (here a deletion) is undone.
C12_NoLostUpdate ==
    (last.op = "load" /\ last.alert.kind = "imported") =>
        /\ Len(After) = Len(Before) + last.alert.n
        /\ SubSeq(After, 1, Len(Before)) = Before

\* C13: at most one call of the extraction service is outstanding for the policy
\* analysis: while one is, no second one can be started.
C13_OneCallInFlight == Len(calls) <= 1

\* C15: when the call of the extraction service fails, the application state is
\* what it was when the operation was started, apart from the error message and
\* the loading flag: the same screen, the same pages and fields of the analysis,
\* the same cards and policies.
C15_FailedCallChangesNothing ==
    (last.op = "rejected" /\ last.direct) =>
        /\ history = last.before.history
        /\ currentPolicyAnalysis # Null
        /\ currentPolicyAnalysis.images = last.before.currentPolicyAnalysis.images
        /\ currentPolicyAnalysis.fields = last.before.currentPolicyAnalysis.fields
        /\ cards = last.before.cards
        /\ policies = last.before.policies

Cells(row) == [j \in 1..Len(job.excelHeaders) |-> Get(row, job.excelHeaders[j])]

\* the internal field header j is mapped to, and the value record i has for it
MappedField(j) == Get(job.columnMapping, job.excelHeaders[j])
MappedValue(i, j) == Get(MapperCards[i], String(MappedField(j)))
IsMapped(i, j) == Truthy(MappedField(j)) /\ MappedValue(i, j) # Undefined

\* C16: applying the mapping gives one row per record with one cell per header
\* of the sheet, in header order: the cell of a header mapped to a field the
\* record has holds that field's value (a list as one string), every other cell
\* is empty.
C16_MappedRows ==
    (job.kind = "excel" /\ job.step = 3) =>
        /\ Len(job.mappedData) = Len(MapperCards)
        /\ \A i \in 1..Len(job.mappedData) :
              /\ Keys(job.mappedData[i]) = {job.excelHeaders[j] : j \in 1..Len(job.excelHeaders)}
              /\ \A j \in 1..Len(job.excelHeaders) :
                    LET cell == Cells(job.mappedData[i])[j] IN
                    IF IsMapped(i, j)
                    THEN IF MappedValue(i, j).t = "arr" THEN cell.t = "str"
                         ELSE cell = MappedValue(i, j)
                    ELSE cell = Str(<<>>)

\* the headers お名前, 会社 mapped to name and companyName: the row of the first
\* card is its name and its company name
C16_Witness ==
    /\ job.kind = "excel" /\ job.step = 3
    /\ job.excelHeaders = <<S_onamae, S_kaisha>>
    /\ Get(job.columnMapping, S_onamae) = Str(S_name)
    /\ Get(job.columnMapping, S_kaisha) = Str(S_companyName)
    /\ Cells(job.mappedData[1]) = <<Get(MapperCards[1], S_name),
                                    Get(MapperCards[1], S_companyName)>>

\* the separators of the encoder: ';' in CSV, ', ' for the lists of TXT
EncoderSeparators == {<<SEMI>>, S_commaSpace}

\* C17: the cell of a list-typed value joins the elements with a separator of
\* the encoder, and the cell of the key/value pairs joins key:value with that
\* same separator.
C17_EncoderSeparator ==
    (job.kind = "excel" /\ job.step = 3) =>
        \E sep \in EncoderSeparators :
            \A i \in 1..Len(job.mappedData) : \A j \in 1..Len(job.excelHeaders) :
                (IsMapped(i, j) /\ MappedValue(i, j).t = "arr") =>
                    Cells(job.mappedData[i])[j] =
                        IF MappedField(j) = Str(S_customFields)
                        THEN Str(Join([n \in 1..Len(MappedValue(i, j).xs) |->
                                          KeyColonValue(MappedValue(i, j).xs[n])], sep))
                        ELSE Str(JoinValues(MappedValue(i, j), sep))

\* C18: the file that is written holds the rows of the uploaded sheet, in their
\* order, before the generated rows.
C18_TemplateRowsKept ==
    (job.kind = "excel" /\ job.written # <<>>) => IsPrefix(job.workbook, job.written)

\* C19: every exported text file begins with a byte-order mark, in CSV and in
\* TXT, in each variant of the application.
C19_ExportStartsWithBom ==
    (job.kind = "export" /\ job.pc = "written") =>
        (job.text # <<>> /\ Head(job.text) = BOM)

EvenQuotesBefore(text, i) ==
    Cardinality({j \in 1..(i - 1) : text[j] = DQ}) % 2 = 0

C21_LateResponseApplied ==
    (last.op = "resolved" /\ last.cancelled) =>
        /\ currentPolicyAnalysis # Null
        /\ currentPolicyAnalysis.images = last.images
        /\ ~currentPolicyAnalysis.isAnalyzing

\* a response has arrived after a cancellation, and the main screen is shown
C21_Witness ==
    /\ last.op = "resolved"
    /\ last.cancelled
    /\ currentPolicyAnalysis # Null
    /\ view # "dynamicAnalysis"

\* the (key, value) pairs of a list of policy fields, in order
KeyValuePairs(fields) == [i \in 1..Len(fields) |-> <<fields[i].key, fields[i].value>>]

\* C22: a policy exported as TXT and imported into a collection without its
\* title comes back as one policy with the same title and the same ordered
\* list of (key, value) fields, and no other field.
C22_PolicyTxtRoundTrip ==
    (job.kind = "policy" /\ job.pc = "read") =>
        /\ Len(job.output) = 1
        /\ Get(job.output[1], S_title) = Str(job.input.title)
        /\ KeyValuePairs(Get(job.output[1], S_fields).xs) = KeyValuePairs(job.input.fields)

\* C23: no two stored contacts have the same identity key (companyName, name)
\* and no two stored policies have the same title, whatever files have been
\* imported, a file with the same key in two rows included.
C23_NoDuplicateKeys ==
    /\ \A i, j \in 1..Len(cards) :
          i # j => CardKey(cards[i]) # CardKey(cards[j])
    /\ \A i, j \in 1..Len(policies) :
          i # j => PolicyKey(policies[i]) # PolicyKey(policies[j])

\* the identity of a contact: the pair of its companyName and its name
CardPair(c) == <<Get(c, S_companyName), Get(c, S_name)>>

\* C24: an import drops a decoded contact only if a contact of the collection
\* has the same companyName and the same name: a decoded row whose pair is the
\* pair of no contact the import read is among the records it adds.
C24_DroppedOnlyOnEqualPair ==
    (Decoded /\ OfCards) =>
        \A i \in 1..Len(last.decoded) :
            (\A k \in 1..Len(Closed) : CardPair(Closed[k]) # CardPair(last.decoded[i]))
                => \E j \in (Len(Closed) + 1)..Len(After) :
                       SameData(After[j], last.decoded[i])

\* ------------------------------------------------------- properties of the account book
\* C25: the staged receipt shown after a scan that was started from the home
\* screen holds the items returned for that scan and no others.
C25_StagedOnlyThisScan ==
    (seen.op = "scanResolved" /\ seen.scanFrom = "home") =>
        stagedReceipt.items = seen.items

\* C26: after a switch from one Drive file to another, when the load of the
\* new file has completed, every top-level entry of the in-memory data is the
\* entry of the new file or, where the file has none, the initial default.
C26_NothingOfTheOldFile ==
    (seen.op = "loaded" /\ seen.hadFile) =>
        \A k \in DOMAIN allData :
            allData[k] = IF k \in DOMAIN seen.data THEN seen.data[k] ELSE InitialData[k]

\* C27: when saves have been issued for the current file and every save has
\* completed without error, the content of the Drive file is the in-memory
\* data, in whatever order the saves completed.
C27_DriveEqualsMemory ==
    (seen.dirty /\ ~seen.failed /\ saves = <<>> /\ driveFileId # NoFileId /\ ~isLoading) =>
        drive[driveFileId] = allData

\* C28: once a file id is set, loading ends: no run makes more than three
\* attempts; a load that succeeds, and one that has failed three times and sets
\* the file-load error, leave isLoading false and no run behind; and whenever
\* the application is loading it eventually is not.
C28_LoadingEnds ==
    /\ [](\A i \in 1..Len(loads) : loads[i].attempt <= maxRetries)
    /\ [](seen.op = "loaded" => ~isLoading /\ loads = <<>> /\ seen.attempts <= maxRetries + 1)
    /\ [](seen.op = "loadFailed" =>
            /\ seen.attempts = maxRetries + 1
            /\ fileLoadError # Null
            /\ ~isLoading /\ loads = <<>>)
    /\ (isLoading ~> ~isLoading)

\* a load has failed three times, the error screen is shown
C28_Witness ==
    /\ seen.op = "loadFailed"
    /\ seen.attempts = 3
    /\ fileLoadError # Null
    /\ ~isLoading

\* C29: in every reachable state the navigation history is non-empty and its
\* first element is 'main', whatever navigateTo, goBack, save, delete and import
\* steps were taken; goBack on a history of one element changes nothing
C29_HistoryStartsAtMain ==
    /\ [](Len(history) >= 1 /\ history[1] = "main")
    /\ [][(goBack /\ Len(history) = 1) =>
            UNCHANGED <<history, cards, policies, memos, localStorage, pending, nextId,
                        currentPolicyAnalysis, calls, recentVars>>]_vars

\* a card was saved from the confirm screen and the user walked on and back
C29_Witness ==
    /\ Len(history) = 1
    /\ Len(cards) >= 1
    /\ \E i \in 1..Len(cards) : Get(cards[i], S_imageUrl) # Null
    /\ policies # <<>>

NoIdTwice(recentIds) ==
    \A i, j \in 1..Len(recentIds) : i # j => recentIds[i] # recentIds[j]

\* C30: after any sequence of selections the recent-cards list holds no id
\* twice, has at most 15 entries and has the id selected last at its head; the
\* same holds for the recent-policies list
C30_RecentLists ==
    /\ NoIdTwice(recentCardIds) /\ Len(recentCardIds) <= RecentLimit
    /\ NoIdTwice(recentPolicyIds) /\ Len(recentPolicyIds) <= RecentLimit
    /\ last.op = "selectCard" => recentCardIds[1] = last.id
    /\ last.op = "selectPolicy" => recentPolicyIds[1] = last.id

\* a card the full list did not hold was selected, and then a policy that was
\* in the middle of its list
C30_Witness ==
    /\ last.op = "selectPolicy"
    /\ \E i \in 2..Len(last.before) : last.before[i] = last.id
    /\ Len(recentCardIds) = RecentLimit
    /\ recentCardIds[1] = MaxRecentIds

====
